---- MODULE Spec2Model ----
(***************************************************************************)
(* A model of the cernunnos server: CSV ingestion (csv-parser.ts), the     *)
(* categorizer (categorize.ts) and the upload handler with its SQLite      *)
(* store (index.ts, db.ts).                                                *)
(*                                                                         *)
(* JavaScript strings are modelled as sequences of one-character strings,  *)
(* JavaScript numbers as exact decimals m * 10^x (or NaN / +-Infinity),    *)
(* and the SHA-256 digest as a collision-free tag over its input.          *)
(***************************************************************************)
EXTENDS Integers, Sequences, FiniteSets, TLC

VARIABLES
    db,         \* the transactions table: rows in insertion order
    reqs,       \* upload requests received, in arrival order
    pending,    \* indices of requests whose handler has not run yet
    responses,  \* responses sent, in completion order
    input,      \* the argument of the function under test
    calls       \* the completed calls of the function under test

vars == <<db, reqs, pending, responses, input, calls>>

----------------------------------------------------------------------------
(* Bounds of the model *)

MaxLineLen == 5
MaxRows == 2
MaxUploads == 2
MaxWords == 2
MaxGaps == 2
MaxTxns == 3

----------------------------------------------------------------------------
(* JavaScript strings *)

\* a string literal as the sequence of its characters
Chars(s) == [i \in 1..Len(s) |-> SubSeq(s, i, i)]

Quote == "\""

\* the characters String.prototype.trim removes
IsSpace(c) == c \in {" ", "\t", "\n", "\r", "\f"}

Trim(s) ==
    LET solid == {i \in 1..Len(s) : ~IsSpace(s[i])}
    IN  IF solid = {} THEN <<>>
        ELSE SubSeq(s, CHOOSE i \in solid : \A j \in solid : i <= j,
                       CHOOSE i \in solid : \A j \in solid : j <= i)

\* String.prototype.split on a one-character separator
RECURSIVE SplitAt(_, _, _, _)
SplitAt(s, sep, i, cur) ==
    IF i > Len(s) THEN <<cur>>
    ELSE IF s[i] = sep THEN <<cur>> \o SplitAt(s, sep, i + 1, <<>>)
    ELSE SplitAt(s, sep, i + 1, Append(cur, s[i]))

Split(s, sep) == SplitAt(s, sep, 1, <<>>)

\* String.prototype.split(/\r?\n/): a line ends before "\n" or "\r\n"
SplitLines(s) ==
    LET breaks == {i \in 1..Len(s) : s[i] = "\n"}
        starts == {1} \cup {i + 1 : i \in breaks}
        stop(a) == IF \E i \in breaks : i >= a
                   THEN CHOOSE i \in breaks : i >= a /\ \A j \in breaks : j >= a => i <= j
                   ELSE Len(s) + 1
        last(a) == IF stop(a) <= Len(s) /\ stop(a) - 1 >= a /\ s[stop(a) - 1] = "\r"
                   THEN stop(a) - 2 ELSE stop(a) - 1
        nth(k) == CHOOSE a \in starts : Cardinality({b \in starts : b < a}) = k - 1
    IN  [k \in 1..Cardinality(starts) |-> SubSeq(s, nth(k), last(nth(k)))]

\* Array.prototype.join
RECURSIVE Join(_, _)
Join(parts, sep) ==
    IF parts = <<>> THEN <<>>
    ELSE IF Len(parts) = 1 THEN parts[1]
    ELSE parts[1] \o sep \o Join(Tail(parts), sep)

UpperLetters == Chars("ABCDEFGHIJKLMNOPQRSTUVWXYZ")
LowerLetters == Chars("abcdefghijklmnopqrstuvwxyz")

LowerChar(c) ==
    IF \E k \in 1..26 : UpperLetters[k] = c
    THEN LowerLetters[CHOOSE k \in 1..26 : UpperLetters[k] = c]
    ELSE c

ToLowerCase(s) == [i \in 1..Len(s) |-> LowerChar(s[i])]

\* String.prototype.includes
Includes(s, sub) ==
    \E i \in 1..(Len(s) - Len(sub) + 1) : SubSeq(s, i, i + Len(sub) - 1) = sub

\* String.prototype.slice(a - 1, b): positions a..b, clamped to the string
Slice(s, a, b) ==
    LET e == IF b < Len(s) THEN b ELSE Len(s)
    IN  [i \in 1..(e - a + 1) |-> s[a + i - 1]]

\* String.prototype.padStart(2, '0')
PadStart2(s) ==
    IF Len(s) >= 2 THEN s ELSE IF Len(s) = 1 THEN <<"0">> \o s ELSE <<"0", "0">>

----------------------------------------------------------------------------
(* csv-parser.ts: parseCsvLines *)

\* the body of the character loop of parseCsvLines (lines 17-36);
\* st.i is the loop index (1-based)
ScanStepNoQuotes(line, st) ==
    LET ch == line[st.i] IN
    IF ch = Quote
    THEN [st EXCEPT !.i = @ + 1]
    ELSE IF ch = ","
    THEN [st EXCEPT !.i = @ + 1, !.fields = Append(@, Trim(st.current)),
                    !.current = <<>>]
    ELSE [st EXCEPT !.i = @ + 1, !.current = Append(@, ch)]

ScanStep(line, st) ==
    LET ch == line[st.i] IN
    IF st.inQuotes
    THEN IF ch = Quote /\ st.i + 1 <= Len(line) /\ line[st.i + 1] = Quote
         THEN [st EXCEPT !.i = @ + 2, !.current = Append(@, Quote)]
         ELSE IF ch = Quote
         THEN [st EXCEPT !.i = @ + 1, !.inQuotes = FALSE]
         ELSE [st EXCEPT !.i = @ + 1, !.current = Append(@, ch)]
    ELSE IF ch = Quote
         THEN [st EXCEPT !.i = @ + 1, !.inQuotes = TRUE]
         ELSE IF ch = ","
         THEN [st EXCEPT !.i = @ + 1, !.fields = Append(@, Trim(st.current)),
                         !.current = <<>>]
         ELSE [st EXCEPT !.i = @ + 1, !.current = Append(@, ch)]

\* the character loop: at most n iterations of the body, stopping at the
\* end of the line.  (Here and below, x \in {e} names the value of e.)
RECURSIVE ScanLoop(_, _, _)
ScanLoop(line, st, n) ==
    IF n = 0 \/ st.i > Len(line) THEN st
    ELSE IF n = 1 THEN ScanStep(line, st)
    ELSE CHOOSE end \in {ScanLoop(line, mid, n - (n \div 2)) :
                            mid \in {ScanLoop(line, st, n \div 2)}} : TRUE

\* the callback mapped over the lines (lines 12-40)
ScanLine(line) ==
    CHOOSE fields \in
        {Append(st.fields, Trim(st.current)) :
            st \in {ScanLoop(line, [i |-> 1, fields |-> <<>>, current |-> <<>>,
                                    inQuotes |-> FALSE], Len(line))}} : TRUE

parseCsvLines(raw) ==
    LET lines == SplitLines(Trim(raw))
    IN  [k \in 1..Len(lines) |-> ScanLine(lines[k])]

----------------------------------------------------------------------------
(* JavaScript numbers.  A finite number is m * 10^x with m not divisible   *)
(* by 10 (zero is m = 0, x = 0; the sign of zero is not kept: -0 prints as *)
(* "0" and is not below zero).  Binary rounding is not modelled.           *)

NaN == [k |-> "NaN", m |-> 0, x |-> 0]
Infinity(sign) == [k |-> "Infinity", m |-> sign, x |-> 0]

RECURSIVE Num(_, _)
Num(m, x) ==
    IF m = 0 THEN [k |-> "num", m |-> 0, x |-> 0]
    ELSE IF m % 10 = 0 THEN Num(m \div 10, x + 1)
    ELSE [k |-> "num", m |-> m, x |-> x]

isNaN(n) == n.k = "NaN"

\* unary minus
Negate(n) == IF n.k = "NaN" THEN n ELSE [n EXCEPT !.m = 0 - @]

\* n < 0
LessThanZero(n) == n.k # "NaN" /\ n.m < 0

Digits == Chars("0123456789")
IsDigit(c) == \E d \in 1..10 : Digits[d] = c
DigitValue(c) == (CHOOSE d \in 1..10 : Digits[d] = c) - 1

\* the number of consecutive decimal digits of s from position i on
DigitRun(s, i) ==
    LET stops == {j \in i..Len(s) : ~IsDigit(s[j])}
    IN  IF stops = {} THEN Len(s) + 1 - i
        ELSE (CHOOSE j \in stops : \A l \in stops : j <= l) - i

RECURSIVE DigitsValue(_)
DigitsValue(ds) ==
    IF ds = <<>> THEN 0
    ELSE 10 * DigitsValue(SubSeq(ds, 1, Len(ds) - 1)) + DigitValue(ds[Len(ds)])

\* the global parseFloat: the longest prefix that is a StrDecimalLiteral
parseTrimmed(t) ==
    LET neg   == t # <<>> /\ t[1] = "-"
        p     == IF t # <<>> /\ t[1] \in {"-", "+"} THEN 2 ELSE 1
        sign  == IF neg THEN 0 - 1 ELSE 1
        ni    == DigitRun(t, p)
        dot   == p + ni <= Len(t) /\ t[p + ni] = "."
        nf    == IF dot THEN DigitRun(t, p + ni + 1) ELSE 0
        q     == IF dot THEN p + ni + 1 + nf ELSE p + ni
        mant  == SubSeq(t, p, p + ni - 1) \o SubSeq(t, p + ni + 1, p + ni + nf)
        hasE  == q <= Len(t) /\ t[q] \in {"e", "E"}
        es    == IF hasE /\ q + 1 <= Len(t) /\ t[q + 1] \in {"-", "+"}
                 THEN q + 2 ELSE q + 1
        ne    == IF hasE THEN DigitRun(t, es) ELSE 0
        ev    == IF ne = 0 THEN 0
                 ELSE IF t[q + 1] = "-" THEN 0 - DigitsValue(SubSeq(t, es, es + ne - 1))
                 ELSE DigitsValue(SubSeq(t, es, es + ne - 1))
    IN  IF Slice(t, p, p + 7) = Chars("Infinity") THEN Infinity(sign)
        ELSE IF ni + nf = 0 THEN NaN
        ELSE Num(sign * DigitsValue(mant), ev - nf)

parseFloat(s) == CHOOSE n \in {parseTrimmed(t) : t \in {Trim(s)}} : TRUE

RECURSIVE NatToChars(_)
NatToChars(v) ==
    IF v < 10 THEN <<Digits[v + 1]>>
    ELSE Append(NatToChars(v \div 10), Digits[(v % 10) + 1])

Zeros(n) == [i \in 1..n |-> "0"]

\* Number::toString (radix 10), used by the template literal `${amount}`
NumberToString(n) ==
    IF n.k = "NaN" THEN Chars("NaN")
    ELSE IF n.k = "Infinity"
    THEN (IF n.m < 0 THEN <<"-">> ELSE <<>>) \o Chars("Infinity")
    ELSE IF n.m = 0 THEN <<"0">>
    ELSE LET ds   == NatToChars(IF n.m < 0 THEN 0 - n.m ELSE n.m)
             kk   == Len(ds)
             nn   == kk + n.x
             e1   == nn - 1
             body ==
                 IF kk <= nn /\ nn <= 21 THEN ds \o Zeros(nn - kk)
                 ELSE IF 0 < nn /\ nn <= 21
                 THEN SubSeq(ds, 1, nn) \o <<".">> \o SubSeq(ds, nn + 1, kk)
                 ELSE IF 0 - 6 < nn /\ nn <= 0
                 THEN <<"0", ".">> \o Zeros(0 - nn) \o ds
                 ELSE (IF kk = 1 THEN ds
                       ELSE <<ds[1], ".">> \o SubSeq(ds, 2, kk))
                      \o <<"e">>
                      \o (IF e1 < 0 THEN <<"-">> \o NatToChars(0 - e1)
                          ELSE <<"+">> \o NatToChars(e1))
         IN  (IF n.m < 0 THEN <<"-">> ELSE <<>>) \o body

----------------------------------------------------------------------------
(* categorize.ts.  Each rule is /\b(alt1|alt2|...)\b/i; the alternatives   *)
(* are listed one by one, an inner group such as apple\s*(music|tv|one)    *)
(* written out as its three alternatives.                                  *)

rules == <<
    \* categorize.ts line 5
    [category |-> Chars("Rent/Mortgage"),
     alts |-> <<
          Chars("rent"), Chars("mortgage"), Chars("hoa"),
          Chars("property\\s*mgmt"), Chars("apt"), Chars("leasing") >>],
    \* categorize.ts line 7
    [category |-> Chars("Groceries"),
     alts |-> <<
          Chars("kroger"), Chars("walmart"), Chars("whole\\s*foods"),
          Chars("trader\\s*joe"), Chars("safeway"), Chars("aldi"),
          Chars("costco"), Chars("publix"), Chars("target"),
          Chars("wegmans"), Chars("heb"), Chars("meijer"), Chars("sprouts"),
          Chars("grocery"), Chars("groceries") >>],
    \* categorize.ts line 9
    [category |-> Chars("Gas & Auto"),
     alts |-> <<
          Chars("shell"), Chars("chevron"), Chars("exxon"), Chars("mobil"),
          Chars("bp\\b"), Chars("marathon"), Chars("speedway"),
          Chars("wawa"), Chars("circle\\s*k"), Chars("gas"), Chars("fuel"),
          Chars("sunoco"), Chars("valero"), Chars("citgo"),
          Chars("auto\\s*parts"), Chars("autozone"), Chars("jiffy\\s*lube"),
          Chars("car\\s*wash") >>],
    \* categorize.ts line 11
    [category |-> Chars("Dining"),
     alts |-> <<
          Chars("mcdonald"), Chars("burger\\s*king"), Chars("wendy"),
          Chars("starbucks"), Chars("chipotle"), Chars("chick-fil-a"),
          Chars("taco\\s*bell"), Chars("subway"), Chars("panera"),
          Chars("dunkin"), Chars("domino"), Chars("pizza\\s*hut"),
          Chars("panda\\s*express"), Chars("grubhub"), Chars("doordash"),
          Chars("uber\\s*eats"), Chars("postmates"), Chars("restaurant"),
          Chars("dining"), Chars("cafe"), Chars("diner"), Chars("bistro"),
          Chars("grill"), Chars("sushi"), Chars("thai"), Chars("chinese"),
          Chars("mexican"), Chars("indian"), Chars("italian") >>],
    \* categorize.ts line 13
    [category |-> Chars("Subscriptions"),
     alts |-> <<
          Chars("netflix"), Chars("spotify"), Chars("hulu"),
          Chars("disney\\+?"), Chars("apple\\s*music"), Chars("apple\\s*tv"),
          Chars("apple\\s*one"), Chars("youtube"), Chars("amazon\\s*prime"),
          Chars("hbo"), Chars("paramount"), Chars("peacock"),
          Chars("audible"), Chars("dropbox"), Chars("icloud"),
          Chars("google\\s*storage"), Chars("google\\s*one"), Chars("adobe"),
          Chars("microsoft\\s*365") >>],
    \* categorize.ts line 15
    [category |-> Chars("Utilities"),
     alts |-> <<
          Chars("electric"), Chars("gas\\s*co"), Chars("water\\s*bill"),
          Chars("water\\s*utility"), Chars("sewer"), Chars("power"),
          Chars("energy"), Chars("utility"), Chars("utilities"),
          Chars("comcast"), Chars("xfinity"), Chars("att\\b"), Chars("at&t"),
          Chars("verizon"), Chars("t-mobile"), Chars("tmobile"),
          Chars("spectrum"), Chars("internet"), Chars("cable"),
          Chars("phone\\s*bill") >>],
    \* categorize.ts line 17
    [category |-> Chars("Transfers"),
     alts |-> <<
          Chars("transfer"), Chars("zelle"), Chars("venmo"), Chars("paypal"),
          Chars("cash\\s*app"), Chars("wire"), Chars("ach") >>],
    \* categorize.ts line 19
    [category |-> Chars("Income"),
     alts |-> <<
          Chars("payroll"), Chars("direct\\s*dep"), Chars("salary"),
          Chars("wage"), Chars("irs"), Chars("tax\\s*refund"),
          Chars("interest\\s*payment") >>],
    \* categorize.ts line 21
    [category |-> Chars("Insurance"),
     alts |-> <<
          Chars("insurance"), Chars("geico"), Chars("progressive"),
          Chars("state\\s*farm"), Chars("allstate"), Chars("usaa"),
          Chars("liberty\\s*mutual") >>],
    \* categorize.ts line 23
    [category |-> Chars("Health & Medical"),
     alts |-> <<
          Chars("pharmacy"), Chars("cvs"), Chars("walgreens"),
          Chars("doctor"), Chars("hospital"), Chars("medical"),
          Chars("dental"), Chars("health"), Chars("urgent\\s*care"),
          Chars("labcorp"), Chars("quest\\s*diag") >>],
    \* categorize.ts line 25
    [category |-> Chars("Shopping"),
     alts |-> <<
          Chars("amazon(?!\\s*prime)"), Chars("ebay"), Chars("etsy"),
          Chars("best\\s*buy"), Chars("home\\s*depot"), Chars("lowes"),
          Chars("ikea"), Chars("nordstrom"), Chars("macys"), Chars("kohls"),
          Chars("tjmaxx"), Chars("marshalls"), Chars("ross") >>],
    \* categorize.ts line 27
    [category |-> Chars("Travel & Transport"),
     alts |-> <<
          Chars("airline"), Chars("flight"), Chars("hotel"), Chars("airbnb"),
          Chars("vrbo"), Chars("booking\\.com"), Chars("expedia"),
          Chars("hertz"), Chars("enterprise"), Chars("uber(?!\\s*eats)"),
          Chars("lyft"), Chars("parking"), Chars("toll") >>],
    \* categorize.ts line 29
    [category |-> Chars("Fitness"),
     alts |-> <<
          Chars("gym"), Chars("fitness"), Chars("planet\\s*fitness"),
          Chars("la\\s*fitness"), Chars("equinox"), Chars("peloton"),
          Chars("crossfit"), Chars("yoga") >>],
    \* categorize.ts line 31
    [category |-> Chars("Education"),
     alts |-> <<
          Chars("tuition"), Chars("university"), Chars("college"),
          Chars("school"), Chars("student\\s*loan"), Chars("coursera"),
          Chars("udemy") >>],
    \* categorize.ts line 33
    [category |-> Chars("Entertainment"),
     alts |-> <<
          Chars("movie"), Chars("cinema"), Chars("theater"),
          Chars("concert"), Chars("ticketmaster"), Chars("amc"),
          Chars("regal"), Chars("steam"), Chars("playstation"),
          Chars("xbox"), Chars("nintendo") >>] >>

IsWordChar(c) ==
    \/ IsDigit(c)
    \/ c = "_"
    \/ \E k \in 1..26 : UpperLetters[k] = c \/ LowerLetters[k] = c

\* \b before position i of s
Boundary(s, i) ==
    (i - 1 >= 1 /\ i - 1 <= Len(s) /\ IsWordChar(s[i - 1]))
        # (i >= 1 /\ i <= Len(s) /\ IsWordChar(s[i]))

\* the number of consecutive \s characters of s from position i on
SpaceRun(s, i) ==
    LET stops == {j \in i..Len(s) : ~IsSpace(s[j])}
    IN  IF stops = {} THEN Len(s) + 1 - i
        ELSE (CHOOSE j \in stops : \A l \in stops : j <= l) - i

\* the positions of s at which a match of p[j..], begun at position i, can end
\* (the regular-expression forms the rules use: literals under the i flag,
\* \s*, \b, an escaped literal with an optional ?, and (?!...))
RECURSIVE MatchEnds(_, _, _, _)
MatchEnds(p, j, s, i) ==
    IF j > Len(p) THEN {i}
    ELSE IF p[j] = "\\" /\ p[j + 1] = "s"
    THEN UNION {MatchEnds(p, j + 3, s, i + n) : n \in 0..SpaceRun(s, i)}
    ELSE IF p[j] = "\\" /\ p[j + 1] = "b"
    THEN IF Boundary(s, i) THEN MatchEnds(p, j + 2, s, i) ELSE {}
    ELSE IF p[j] = "\\"
    THEN LET opt == j + 2 <= Len(p) /\ p[j + 2] = "?"
             nxt == IF opt THEN j + 3 ELSE j + 2
         IN  (IF i <= Len(s) /\ s[i] = p[j + 1]
              THEN MatchEnds(p, nxt, s, i + 1) ELSE {})
             \cup (IF opt THEN MatchEnds(p, nxt, s, i) ELSE {})
    ELSE IF p[j] = "("
    THEN LET close == CHOOSE c \in j..Len(p) :
                          p[c] = ")" /\ \A d \in j..(c - 1) : p[d] # ")"
         IN  IF MatchEnds(SubSeq(p, j + 3, close - 1), 1, s, i) = {}
             THEN MatchEnds(p, close + 1, s, i) ELSE {}
    ELSE IF i <= Len(s) /\ LowerChar(s[i]) = LowerChar(p[j])
    THEN MatchEnds(p, j + 1, s, i + 1)
    ELSE {}

\* pattern.test(description)
RuleTest(rule, description) ==
    \E i \in 1..(Len(description) + 1) :
        /\ Boundary(description, i)
        /\ \E a \in 1..Len(rule.alts) :
               \E e \in MatchEnds(rule.alts[a], 1, description, i) :
                   Boundary(description, e)

Uncategorized == Chars("Uncategorized")

RECURSIVE categorizeFrom(_, _)
categorizeFrom(description, r) ==
    IF r > Len(rules) THEN Uncategorized
    ELSE IF RuleTest(rules[r], description) THEN rules[r].category
    ELSE categorizeFrom(description, r + 1)

\* the category of the last rule that matches
categorizeLastMatch(description) ==
    LET matching == {r \in 1..Len(rules) : RuleTest(rules[r], description)}
    IN  IF matching = {} THEN Uncategorized
        ELSE rules[CHOOSE r \in matching : \A q \in matching : q <= r].category

categorize(description) == categorizeFrom(description, 1)

----------------------------------------------------------------------------
(* csv-parser.ts: generateId, parseDate, detectFormat *)

\* createHash('sha256').update(key).digest('hex').slice(0, 32): the digest
\* is a value determined by its input, with no collisions
Sha256Hex32(key) == [sha256 |-> key]

generateId(date, description, amount, source) ==
    Sha256Hex32(date \o <<"|">> \o description \o <<"|">>
                \o NumberToString(amount) \o <<"|">> \o Chars(source))

NoError == [msg |-> "", row |-> 0, reason |-> "", text |-> <<>>]

\* a thrown Error: its message, with the row number and the quoted text
Error(msg, row, reason, text) ==
    [msg |-> msg, row |-> row, reason |-> reason, text |-> text]

parseDate(dateStr) ==
    LET parts == Split(dateStr, "/")
    IN  IF Len(parts) = 3
        THEN [ok |-> TRUE,
              value |-> parts[3] \o <<"-">> \o PadStart2(parts[1])
                        \o <<"-">> \o PadStart2(parts[2])]
        ELSE [ok |-> FALSE, value |-> dateStr]

detectFormatCreditFirst(headers) ==
    LET joined == ToLowerCase(Join(headers, <<",">>))
    IN  IF Includes(joined, Chars("category"))
           /\ Includes(joined, Chars("transaction date"))
        THEN "chase_credit"
        ELSE IF Includes(joined, Chars("balance"))
                /\ Includes(joined, Chars("posting date"))
        THEN "chase_checking"
        ELSE "unrecognized"

\* "unrecognized" stands for the thrown Error
detectFormat(headers) ==
    LET joined == ToLowerCase(Join(headers, <<",">>))
    IN  IF Includes(joined, Chars("balance")) /\ Includes(joined, Chars("posting date"))
        THEN "chase_checking"
        ELSE IF Includes(joined, Chars("category"))
                /\ Includes(joined, Chars("transaction date"))
        THEN "chase_credit"
        ELSE "unrecognized"

----------------------------------------------------------------------------
(* csv-parser.ts: parseCsv *)

\* an optional value (balance?: number, category?: string): <<>> is undefined
Undefined == <<>>
Some(v) == <<v>>

NoTransaction == [id |-> Sha256Hex32(<<>>)]

\* an Error thrown inside the try block, as rethrown at line 122; k is i + 1,
\* the row number the messages print
RowError(k, reason, text) ==
    [ok |-> FALSE, txn |-> NoTransaction, consulted |-> <<>>,
     error |-> Error("Parse error at row", k, reason, text)]

\* the object pushed at lines 89-99
checkingTransactionIdWithAccount(row, account, amount, balance, date) ==
    [id |-> Sha256Hex32(date \o <<"|">> \o row[3] \o <<"|">> \o NumberToString(amount)
                        \o <<"|">> \o Chars("chase_checking") \o <<"|">> \o account),
     date |-> date,
     description |-> row[3],
     amount |-> amount,
     type |-> IF LessThanZero(amount) THEN "debit" ELSE "credit",
     balance |-> IF isNaN(balance) THEN Undefined ELSE Some(balance),
     category |-> Some(categorize(row[3])),
     account |-> account,
     source |-> "chase_checking"]

checkingTransaction(row, account, amount, balance, date) ==
    [id |-> generateId(date, row[3], amount, "chase_checking"),
     date |-> date,
     description |-> row[3],
     amount |-> amount,
     type |-> IF LessThanZero(amount) THEN "debit" ELSE "credit",
     balance |-> IF isNaN(balance) THEN Undefined ELSE Some(balance),
     category |-> Some(categorize(row[3])),
     account |-> account,
     source |-> "chase_checking"]

\* the checking branch of the try block (lines 82-99)
checkingRow(row, k, account) ==
    IF Len(row) < 6
    THEN RowError(k, "expected at least 6 columns", NatToChars(Len(row)))
    ELSE CHOOSE r \in
        {IF isNaN(amount) THEN RowError(k, "invalid amount", row[4])
         ELSE IF ~date.ok THEN RowError(k, "Invalid date format", row[2])
         ELSE [ok |-> TRUE, error |-> NoError, consulted |-> <<row[3]>>,
               txn |-> checkingTransaction(row, account, amount, balance, date.value)] :
            amount \in {parseFloat(row[4])},
            balance \in {parseFloat(row[6])},
            date \in {parseDate(row[2])}} : TRUE

\* the object pushed at lines 110-119, with amount = -rawAmount (line 107)
creditTransactionNoNegate(row, account, rawAmount, date) ==
    [id |-> generateId(date, row[3], rawAmount, "chase_credit"),
     date |-> date,
     description |-> row[3],
     amount |-> rawAmount,
     type |-> IF LessThanZero(rawAmount) THEN "debit" ELSE "credit",
     balance |-> Undefined,
     category |-> IF row[4] = <<>> THEN Undefined ELSE Some(row[4]),
     account |-> account,
     source |-> "chase_credit"]

creditTransactionAutoCategory(row, account, rawAmount, date) ==
    [id |-> generateId(date, row[3], Negate(rawAmount), "chase_credit"),
     date |-> date,
     description |-> row[3],
     amount |-> Negate(rawAmount),
     type |-> IF LessThanZero(Negate(rawAmount)) THEN "debit" ELSE "credit",
     balance |-> Undefined,
     category |-> IF row[4] = <<>> THEN Some(categorize(row[3])) ELSE Some(row[4]),
     account |-> account,
     source |-> "chase_credit"]

creditTransaction(row, account, rawAmount, date) ==
    [id |-> generateId(date, row[3], Negate(rawAmount), "chase_credit"),
     date |-> date,
     description |-> row[3],
     amount |-> Negate(rawAmount),
     type |-> IF LessThanZero(Negate(rawAmount)) THEN "debit" ELSE "credit",
     balance |-> Undefined,
     category |-> IF row[4] = <<>> THEN Undefined ELSE Some(row[4]),
     account |-> account,
     source |-> "chase_credit"]

\* the credit branch of the try block (lines 101-119)
creditRow(row, k, account) ==
    IF Len(row) < 6
    THEN RowError(k, "expected at least 6 columns", NatToChars(Len(row)))
    ELSE CHOOSE r \in
        {IF isNaN(rawAmount) THEN RowError(k, "invalid amount", row[6])
         ELSE IF ~date.ok THEN RowError(k, "Invalid date format", row[1])
         ELSE [ok |-> TRUE, error |-> NoError, consulted |-> <<>>,
               txn |-> creditTransaction(row, account, rawAmount, date.value)] :
            rawAmount \in {parseFloat(row[6])},
            date \in {parseDate(row[1])}} : TRUE

\* the result of parseCsv: the returned array, or the thrown Error; format
\* is the layout detectFormat returned ("none" before it ran) and consulted
\* lists the descriptions handed to categorize
Thrown(error, format) ==
    [ok |-> FALSE, transactions |-> <<>>, error |-> error, format |-> format,
     consulted |-> <<>>]

\* line 78: a row to skip
IsBlankRow(row) == Len(row) = 0 \/ (Len(row) = 1 /\ row[1] = <<>>)

\* a row loop that returns the empty array when no row was converted
RECURSIVE convertRowsAllowEmpty(_, _, _, _, _, _)
convertRowsAllowEmpty(format, rows, k, account, transactions, consulted) ==
    IF k > Len(rows)
    THEN [ok |-> TRUE, transactions |-> transactions, error |-> NoError,
          format |-> format, consulted |-> consulted]
    ELSE IF IsBlankRow(rows[k])
    THEN convertRowsAllowEmpty(format, rows, k + 1, account, transactions, consulted)
    ELSE CHOOSE result \in
             {IF r.ok
              THEN convertRowsAllowEmpty(format, rows, k + 1, account,
                                         Append(transactions, r.txn),
                                         consulted \o r.consulted)
              ELSE Thrown(r.error, format) :
                 r \in {IF format = "chase_checking"
                        THEN checkingRow(rows[k], k, account)
                        ELSE creditRow(rows[k], k, account)}} : TRUE

\* a row loop that drops a failing row and carries on
RECURSIVE convertRowsSkipBad(_, _, _, _, _, _)
convertRowsSkipBad(format, rows, k, account, transactions, consulted) ==
    IF k > Len(rows)
    THEN IF Len(transactions) = 0
         THEN Thrown(Error("No valid transactions found in CSV", 0, "", <<>>), format)
         ELSE [ok |-> TRUE, transactions |-> transactions, error |-> NoError,
               format |-> format, consulted |-> consulted]
    ELSE IF IsBlankRow(rows[k])
    THEN convertRowsSkipBad(format, rows, k + 1, account, transactions, consulted)
    ELSE CHOOSE result \in
             {IF r.ok
              THEN convertRowsSkipBad(format, rows, k + 1, account,
                                      Append(transactions, r.txn),
                                      consulted \o r.consulted)
              ELSE convertRowsSkipBad(format, rows, k + 1, account, transactions,
                                      consulted) :
                 r \in {IF format = "chase_checking"
                        THEN checkingRow(rows[k], k, account)
                        ELSE creditRow(rows[k], k, account)}} : TRUE

\* the row loop (lines 76-124) from row k on, then lines 126-130
RECURSIVE convertRows(_, _, _, _, _, _)
convertRows(format, rows, k, account, transactions, consulted) ==
    IF k > Len(rows)
    THEN IF Len(transactions) = 0
         THEN Thrown(Error("No valid transactions found in CSV", 0, "", <<>>), format)
         ELSE [ok |-> TRUE, transactions |-> transactions, error |-> NoError,
               format |-> format, consulted |-> consulted]
    ELSE IF IsBlankRow(rows[k])
    THEN convertRows(format, rows, k + 1, account, transactions, consulted)
    ELSE CHOOSE result \in
             {IF r.ok
              THEN convertRows(format, rows, k + 1, account,
                               Append(transactions, r.txn), consulted \o r.consulted)
              ELSE Thrown(r.error, format) :
                 r \in {IF format = "chase_checking"
                        THEN checkingRow(rows[k], k, account)
                        ELSE creditRow(rows[k], k, account)}} : TRUE

\* lines 72-130, once the rows are at least two
parseRows(rows, account) ==
    CHOOSE result \in
        {IF format = "unrecognized"
         THEN Thrown(Error("Unrecognized CSV format. Headers: ", 0, "",
                           Join(rows[1], <<",", " ">>)), "none")
         ELSE convertRows(format, rows, 2, account, <<>>, <<>>) :
            format \in {detectFormat(rows[1])}} : TRUE

parseCsv(raw, account) ==
    CHOOSE result \in
        {IF Len(rows) < 2
         THEN Thrown(Error("CSV must have a header row and at least one data row",
                           0, "", <<>>), "none")
         ELSE parseRows(rows, account) :
            rows \in {parseCsvLines(raw)}} : TRUE

----------------------------------------------------------------------------
(* Tokenizer harness: one line in, its fields out *)

TokAlphabet == {"a", ",", Quote, " "}

RECURSIVE StringsUpTo(_, _)
StringsUpTo(alphabet, n) ==
    IF n = 0 THEN {<<>>}
    ELSE LET shorter == StringsUpTo(alphabet, n - 1)
         IN  shorter \cup {Append(s, c) : s \in shorter, c \in alphabet}

SpecExampleRow ==
    Chars("Details,03/04/2024,\"Payment, Thank You\",1200.00,ACH_CREDIT,5000.00,")

TokInputs == StringsUpTo(TokAlphabet, MaxLineLen) \cup {SpecExampleRow}

\* a file as text: the header line and the data lines, joined by eol
FileText(header, lines, eol) == Join(<<header>> \o lines, eol)

NoInput == [header |-> <<>>, lines |-> <<>>, account |-> <<>>]

InitTok ==
    /\ db = <<>>
    /\ reqs = <<>>
    /\ pending = {}
    /\ responses = <<>>
    /\ \E line \in TokInputs : input = [NoInput EXCEPT !.header = line]
    /\ calls = <<>>

Tokenize ==
    /\ calls = <<>>
    /\ calls' = <<[raw |-> input.header, rows |-> parseCsvLines(input.header)]>>
    /\ UNCHANGED <<db, reqs, pending, responses, input>>

NextTok == Tokenize

SpecTok == InitTok /\ [][NextTok]_vars

----------------------------------------------------------------------------
(* Categorizer harness: a description in, its category out, twice *)

RECURSIVE SeqsUpTo(_, _)
SeqsUpTo(S, n) ==
    IF n = 0 THEN {<<>>}
    ELSE LET shorter == SeqsUpTo(S, n - 1)
         IN  shorter \cup {Append(q, e) : q \in shorter, e \in S}

CatWords == {Chars("amazon"), Chars("prime"), Chars("uber"), Chars("eats"),
             Chars("gas"), Chars("rent"), Chars("NETFLIX"), Chars("xyz")}

\* descriptions of up to MaxWords words
CatInputs == {Join(ws, <<" ">>) : ws \in SeqsUpTo(CatWords, MaxWords)}

InitCat ==
    /\ db = <<>>
    /\ reqs = <<>>
    /\ pending = {}
    /\ responses = <<>>
    /\ \E description \in CatInputs : input = [NoInput EXCEPT !.header = description]
    /\ calls = <<>>

Categorize ==
    /\ calls = <<>>
    /\ calls' = <<[raw |-> input.header, category |-> categorize(input.header)]>>
    /\ UNCHANGED <<db, reqs, pending, responses, input>>

CategorizeAgain ==
    /\ Len(calls) = 1
    /\ calls' = Append(calls, [raw |-> input.header,
                               category |-> categorize(input.header)])
    /\ UNCHANGED <<db, reqs, pending, responses, input>>

NextCat == Categorize \/ CategorizeAgain

SpecCat == InitCat /\ [][NextCat]_vars

----------------------------------------------------------------------------
(* Parser harness: a file and an account label in, the result of parseCsv  *)
(* out; then the same rows parsed again in another call.                   *)

CheckingHeader ==
    Chars("Details,Posting Date,Description,Amount,Type,Balance,Check or Slip #")
CreditHeader ==
    Chars("Transaction Date,Post Date,Description,Category,Type,Amount,Memo")
\* both pairs of column names, in other letter case
BothHeader == Chars("transaction date,CATEGORY,POSTING DATE,Running balance,x,y")
\* "posting" and "date" are two columns here
OtherHeader == Chars("Posting,Date,Description,Amount,Balance,Category")

CheckingLines == {
    Chars("DEBIT,3/4/2024,NETFLIX.COM,-15.99,ACH_DEBIT,5000.00,"),
    Chars("DEBIT,3/4/2024,NETFLIX.COM,-15.99,DEBIT_CARD,,"),
    Chars("CREDIT,12/31/2023,\"Payment, Thank You\",1200.00,ACH_CREDIT,6200.00,"),
    Chars("DEBIT,2024/03/04,RENT,-900,MISC,1,"),
    Chars("DEBIT,3/5/2024,RENT,\"1,200.00\",MISC,1,"),
    Chars("DEBIT,2024-03-04,RENT,-900,MISC,1,"),
    Chars("DEBIT,3/5/2024,RENT,abc,MISC,1,"),
    Chars("DEBIT,3/5/2024,RENT,-900"),
    Chars("") }

CreditLines == {
    Chars("3/4/2024,3/5/2024,NETFLIX.COM,Entertainment,Sale,15.99,"),
    Chars("3/4/2024,3/6/2024,NETFLIX.COM,,Return,15.99,memo"),
    Chars("3/1/2024,3/2/2024,AUTOPAY,,Payment,-42.50,"),
    Chars("3/1/24,3/2/2024,UBER EATS,Dining,Sale,12abc,"),
    Chars("03-01-2024,3/2/2024,UBER EATS,Dining,Sale,7.00,"),
    Chars("3/1/2024,3/2/2024,UBER EATS,Dining,Sale,x12,"),
    Chars("3/1/2024,3/2/2024,UBER EATS,Dining,Sale"),
    \* a line of two quotes: one empty field, kept by raw.trim()
    Chars("\"\"") }

OtherLines == {
    Chars("DEBIT,3/4/2024,NETFLIX.COM,-15.99,ACH_DEBIT,5000.00,"),
    Chars("3/4/2024,3/5/2024,NETFLIX.COM,Entertainment,Sale,15.99,"),
    Chars("DEBIT,3/5/2024,RENT,abc,MISC,1,") }

\* rows with a | in the description or in the date field
BarLines == <<
    Chars("DEBIT,3/04/2024,x|y,-1,MISC,1,"),
    Chars("DEBIT,3/04|x/2024,y,-1,MISC,1,"),
    Chars("DEBIT,3/04/2024,x|z,-1,MISC,1,") >>

BarInputs ==
    {[header |-> CheckingHeader, lines |-> l, account |-> Chars("main")] :
        l \in {<<BarLines[1], BarLines[2]>>, <<BarLines[1], BarLines[3]>>}}

ParseInputs ==
    BarInputs \cup
    {[header |-> h, lines |-> l, account |-> Chars("main")] :
        h \in {CheckingHeader, BothHeader}, l \in SeqsUpTo(CheckingLines, MaxRows)}
    \cup {[header |-> CreditHeader, lines |-> l, account |-> Chars("main")] :
        l \in SeqsUpTo(CreditLines, MaxRows)}
    \cup {[header |-> OtherHeader, lines |-> l, account |-> Chars("main")] :
        l \in SeqsUpTo(OtherLines, MaxRows)}

Reverse(q) == [i \in 1..Len(q) |-> q[Len(q) + 1 - i]]

\* a second call on the same rows: in reverse order, under another account
\* label, with CRLF line ends and a final line break
Variants == {
    [account |-> Chars("joint"), reversed |-> FALSE, crlf |-> FALSE],
    [account |-> Chars("main"),  reversed |-> TRUE,  crlf |-> FALSE],
    [account |-> Chars("joint"), reversed |-> TRUE,  crlf |-> TRUE] }

VariantText(in, v) ==
    LET lines == IF v.reversed THEN Reverse(in.lines) ELSE in.lines
    IN  IF v.crlf
        THEN FileText(in.header, lines, <<"\r", "\n">>) \o <<"\r", "\n">>
        ELSE FileText(in.header, lines, <<"\n">>)

InitParse ==
    /\ db = <<>>
    /\ reqs = <<>>
    /\ pending = {}
    /\ responses = <<>>
    /\ input \in ParseInputs
    /\ calls = <<>>

Parse ==
    /\ calls = <<>>
    /\ LET raw == FileText(input.header, input.lines, <<"\n">>)
       IN  calls' = <<[raw |-> raw, account |-> input.account,
                       rows |-> parseCsvLines(raw),
                       result |-> parseCsv(raw, input.account)]>>
    /\ UNCHANGED <<db, reqs, pending, responses, input>>

ParseAgain ==
    /\ Len(calls) = 1
    /\ \E v \in Variants :
          LET raw == VariantText(input, v)
          IN  calls' = Append(calls, [raw |-> raw, account |-> v.account,
                                      rows |-> parseCsvLines(raw),
                                      result |-> parseCsv(raw, v.account)])
    /\ UNCHANGED <<db, reqs, pending, responses, input>>

NextParse == Parse \/ ParseAgain

SpecParse == InitParse /\ [][NextParse]_vars

----------------------------------------------------------------------------
(* index.ts and db.ts: the transactions table and POST /api/upload *)

\* the row insertStmt binds (balance ?? null, category ?? null: <<>> is NULL)
BoundRow(t) ==
    [id |-> t.id, date |-> t.date, description |-> t.description,
     amount |-> t.amount, type |-> t.type, balance |-> t.balance,
     category |-> t.category, account |-> t.account, source |-> t.source]

\* insertStmt.run: INSERT OR IGNORE against id TEXT PRIMARY KEY
insertStmtAlways(table, t) ==
    [table |-> Append(table, BoundRow(t)), changes |-> 1]

\* INSERT OR REPLACE: the row of a later import takes the place of the stored
\* one
insertStmtReplace(table, t) ==
    IF \E n \in 1..Len(table) : table[n].id = t.id
    THEN [table |-> [n \in 1..Len(table) |->
                        IF table[n].id = t.id THEN BoundRow(t) ELSE table[n]],
          changes |-> 1]
    ELSE [table |-> Append(table, BoundRow(t)), changes |-> 1]

insertStmt(table, t) ==
    IF \E n \in 1..Len(table) : table[n].id = t.id
    THEN [table |-> table, changes |-> 0]
    ELSE [table |-> Append(table, BoundRow(t)), changes |-> 1]

\* a loop that counts the inserted rows only
RECURSIVE insertLoopImportedOnly(_, _, _)
insertLoopImportedOnly(txns, n, st) ==
    IF n > Len(txns) THEN st
    ELSE CHOOSE end \in
             {insertLoopImportedOnly(txns, n + 1, next) :
                 next \in
                    {IF result.changes > 0
                     THEN [st EXCEPT !.table = result.table, !.imported = @ + 1,
                                     !.importedIds = Append(@, txns[n].id)]
                     ELSE [st EXCEPT !.table = result.table] :
                        result \in {insertStmt(st.table, txns[n])}}} : TRUE

\* the loop of insertMany from txns[n] on; st carries the table and the
\* counters, with the ids counted each way
RECURSIVE insertLoop(_, _, _)
insertLoop(txns, n, st) ==
    IF n > Len(txns) THEN st
    ELSE CHOOSE end \in
             {insertLoop(txns, n + 1, next) :
                 next \in
                    {IF result.changes > 0
                     THEN [st EXCEPT !.table = result.table, !.imported = @ + 1,
                                     !.importedIds = Append(@, txns[n].id)]
                     ELSE [st EXCEPT !.table = result.table, !.skipped = @ + 1,
                                     !.skippedIds = Append(@, txns[n].id)] :
                        result \in {insertStmt(st.table, txns[n])}}} : TRUE

\* db.transaction(...): the loop runs as one SQLite transaction
insertMany(table, txns) ==
    insertLoop(txns, 1, [table |-> table, imported |-> 0, skipped |-> 0,
                         importedIds |-> <<>>, skippedIds |-> <<>>])

\* the files clients upload
UploadFiles == <<
    FileText(CheckingHeader,
        <<Chars("DEBIT,3/4/2024,NETFLIX.COM,-15.99,ACH_DEBIT,5000.00,"),
          Chars("CREDIT,12/31/2023,\"Payment, Thank You\",1200.00,ACH_CREDIT,6200.00,")>>,
        <<"\n">>),
    \* two rows with the same date, description and amount
    FileText(CheckingHeader,
        <<Chars("DEBIT,3/4/2024,NETFLIX.COM,-15.99,ACH_DEBIT,5000.00,"),
          Chars("DEBIT,3/4/2024,NETFLIX.COM,-15.99,DEBIT_CARD,4984.01,")>>,
        <<"\n">>),
    \* a valid row, then a row with a bad amount
    FileText(CheckingHeader,
        <<Chars("DEBIT,3/5/2024,RENT,-900,MISC,1,"),
          Chars("DEBIT,3/5/2024,RENT,abc,MISC,1,")>>,
        <<"\n">>),
    FileText(CreditHeader,
        <<Chars("3/4/2024,3/5/2024,NETFLIX.COM,Entertainment,Sale,15.99,"),
          Chars("3/1/2024,3/2/2024,AUTOPAY,,Payment,-42.50,")>>,
        <<"\r", "\n">>) >>

\* multipart requests: req.file (absent: <<>>) and req.body.account
UploadRequests == {
    [file |-> Some(UploadFiles[1]), account |-> <<>>],
    [file |-> Some(UploadFiles[1]), account |-> Chars("joint")],
    [file |-> Some(UploadFiles[2]), account |-> <<>>],
    [file |-> Some(UploadFiles[3]), account |-> <<>>],
    [file |-> Some(UploadFiles[4]), account |-> Chars("card")],
    [file |-> Undefined, account |-> <<>>] }

Init ==
    /\ db = <<>>
    /\ reqs = <<>>
    /\ pending = {}
    /\ responses = <<>>
    /\ input = NoInput
    /\ calls = <<>>

\* multer has buffered a request; its handler is queued
Receive(req) ==
    /\ Len(reqs) < MaxUploads
    /\ reqs' = Append(reqs, req)
    /\ pending' = pending \cup {Len(reqs) + 1}
    /\ UNCHANGED <<db, responses, input, calls>>

\* res.status(400).json({ error })
BadRequest(i, error) ==
    [req |-> i, status |-> 400, total |-> 0, imported |-> 0, skipped |-> 0,
     error |-> error, ids |-> <<>>, importedIds |-> <<>>, skippedIds |-> <<>>]

\* the handler of POST /api/upload for request i, run to completion
Upload(i) ==
    /\ i \in pending
    /\ pending' = pending \ {i}
    /\ LET req == reqs[i] IN
       IF req.file = Undefined
       THEN /\ responses' = Append(responses,
                                BadRequest(i, Error("No file uploaded", 0, "", <<>>)))
            /\ db' = db
       ELSE LET account == IF req.account = <<>> THEN Chars("default") ELSE req.account
                raw     == req.file[1]
            IN  \E parsed \in {parseCsv(raw, account)} :
                \E done \in {insertMany(db, parsed.transactions)} :
                IF ~parsed.ok
                THEN /\ responses' = Append(responses, BadRequest(i, parsed.error))
                     /\ db' = db
                ELSE /\ db' = done.table
                     /\ responses' = Append(responses,
                           [req |-> i, status |-> 200,
                            total |-> Len(parsed.transactions),
                            imported |-> done.imported, skipped |-> done.skipped,
                            error |-> NoError,
                            ids |-> [n \in 1..Len(parsed.transactions) |->
                                        parsed.transactions[n].id],
                            importedIds |-> done.importedIds,
                            skippedIds |-> done.skippedIds])
    /\ UNCHANGED <<reqs, input, calls>>

Next ==
    \/ \E req \in UploadRequests : Receive(req)
    \/ \E i \in pending : Upload(i)

Spec == Init /\ [][Next]_vars

----------------------------------------------------------------------------
(* recurring.ts: normalizeDescription *)

UpperChar(c) ==
    IF \E k \in 1..26 : LowerLetters[k] = c
    THEN UpperLetters[CHOOSE k \in 1..26 : LowerLetters[k] = c]
    ELSE c

ToUpperCase(s) == <<>> \o [i \in 1..Len(s) |-> UpperChar(s[i])]

\* the number of consecutive characters of s from position i on that are in
\* the class
ClassRun(s, i, class) ==
    LET stops == {j \in i..Len(s) : s[j] \notin class}
    IN  IF stops = {} THEN Len(s) + 1 - i
        ELSE (CHOOSE j \in stops : \A l \in stops : j <= l) - i

Min2(a, b) == IF a < b THEN a ELSE b

At(s, i) == IF i >= 1 /\ i <= Len(s) THEN s[i] ELSE ""

\* the length of the match of a pattern of lines 17-26 that starts at
\* position i of s; 0 when there is none (no pattern matches the empty string)
MatchLength(pattern, s, i) ==
    CASE pattern = "\\d{1,2}\\/\\d{1,2}(\\/\\d{2,4})?" ->
            IF ~IsDigit(At(s, i)) THEN 0 ELSE
            LET d1 == Min2(DigitRun(s, i), 2)
                d2 == Min2(DigitRun(s, i + d1 + 1), 2)
                d3 == Min2(DigitRun(s, i + d1 + d2 + 2), 4)
            IN  IF d1 = 0 \/ At(s, i + d1) # "/" \/ d2 = 0 THEN 0
                ELSE IF At(s, i + d1 + 1 + d2) = "/" /\ d3 >= 2
                THEN d1 + 1 + d2 + 1 + d3
                ELSE d1 + 1 + d2
      [] pattern = "\\d{4}-\\d{2}-\\d{2}" ->
            IF /\ IsDigit(At(s, i))
               /\ DigitRun(s, i) >= 4
               /\ At(s, i + 4) = "-"
               /\ DigitRun(s, i + 5) >= 2
               /\ At(s, i + 7) = "-"
               /\ DigitRun(s, i + 8) >= 2
            THEN 10 ELSE 0
      [] pattern = "\\b\\d{4,}\\b" ->
            IF /\ IsDigit(At(s, i))
               /\ DigitRun(s, i) >= 4
               /\ ~IsWordChar(At(s, i - 1))
               /\ ~IsWordChar(At(s, i + DigitRun(s, i)))
            THEN DigitRun(s, i) ELSE 0
      [] pattern = "#\\d+" ->
            IF At(s, i) = "#" /\ DigitRun(s, i + 1) >= 1
            THEN 1 + DigitRun(s, i + 1) ELSE 0
      [] pattern = "\\$[\\d,.]+" ->
            IF At(s, i) # "$" THEN 0 ELSE
            LET run == ClassRun(s, i + 1, {Digits[d] : d \in 1..10} \cup {",", "."})
            IN  IF run >= 1 THEN 1 + run ELSE 0
      [] pattern = "\\s+" ->
            IF ~IsSpace(At(s, i)) THEN 0
            ELSE ClassRun(s, i, {" ", "\t", "\n", "\r", "\f"})

\* String.prototype.replace with a global pattern, from position i on
RECURSIVE ReplaceFrom(_, _, _, _)
ReplaceFrom(s, pattern, replacement, i) ==
    IF i > Len(s) THEN <<>>
    ELSE CHOOSE out \in
        {IF n > 0 THEN replacement \o ReplaceFrom(s, pattern, replacement, i + n)
         ELSE <<s[i]>> \o ReplaceFrom(s, pattern, replacement, i + 1) :
            n \in {MatchLength(pattern, s, i)}} : TRUE

Replace(s, pattern, replacement) == ReplaceFrom(s, pattern, replacement, 1)

normalizeDescription(desc) ==
    ToUpperCase(Trim(
        Replace(Replace(Replace(Replace(Replace(Replace(desc,
            "\\d{1,2}\\/\\d{1,2}(\\/\\d{2,4})?", <<>>),
            "\\d{4}-\\d{2}-\\d{2}", <<>>),
            "\\b\\d{4,}\\b", <<>>),
            "#\\d+", <<>>),
            "\\$[\\d,.]+", <<>>),
            "\\s+", <<" ">>)))

----------------------------------------------------------------------------
(* recurring.ts: Date values, addDays, daysBetween, classifyFrequency *)

\* A Date at midnight UTC is its day number (days since 1970-01-01), or the
\* Invalid Date; a time value is clipped to 8.64e15 ms, that is 1e8 days.
MaxDay == 100000000
InvalidDate == [valid |-> FALSE, day |-> 0]
DateAt(day) ==
    IF day > MaxDay \/ day < 0 - MaxDay THEN InvalidDate
    ELSE [valid |-> TRUE, day |-> day]

\* MakeDay(year, month, date) of the Date object, for month in 1..12 and any
\* date: days run on into the following months
MakeDay(y, m, d) ==
    LET yy  == IF m <= 2 THEN y - 1 ELSE y
        era == yy \div 400
        yoe == yy - era * 400
        mp  == IF m > 2 THEN m - 3 ELSE m + 9
        doy == (153 * mp + 2) \div 5 + d - 1
        doe == yoe * 365 + yoe \div 4 - yoe \div 100 + doy
    IN  era * 146097 + doe - 719468

\* the UTC year, month and date of a day number
CivilFromDays(z) ==
    LET zz  == z + 719468
        era == zz \div 146097
        doe == zz - era * 146097
        yoe == (doe - doe \div 1460 + doe \div 36524 - doe \div 146096) \div 365
        doy == doe - (365 * yoe + yoe \div 4 - yoe \div 100)
        mp  == (5 * doy + 2) \div 153
        d   == doy - (153 * mp + 2) \div 5 + 1
        m   == IF mp < 10 THEN mp + 3 ELSE mp - 9
    IN  [year |-> yoe + era * 400 + (IF m <= 2 THEN 1 ELSE 0), month |-> m, date |-> d]

AllDigitsAt(s, positions) == \A i \in positions : IsDigit(At(s, i))

\* new Date(dateStr + 'T00:00:00Z'): the date-time format YYYY-MM-DD, or
\* with an expanded year +YYYYYY-MM-DD / -YYYYYY-MM-DD; V8 takes a date up to
\* 31 in every month; any other text is an Invalid Date
NewDate(dateStr) ==
    LET signed == Len(dateStr) = 13 /\ dateStr[1] \in {"+", "-"}
        plain  == Len(dateStr) = 10
        o      == IF signed THEN 3 ELSE 0
        shaped == /\ signed \/ plain
                  /\ AllDigitsAt(dateStr, ((1 + o - (IF signed THEN 2 ELSE 0))..(4 + o))
                                          \cup {6 + o, 7 + o, 9 + o, 10 + o})
                  /\ dateStr[5 + o] = "-"
                  /\ dateStr[8 + o] = "-"
    IN  IF ~shaped THEN InvalidDate
        ELSE LET digits == DigitsValue(SubSeq(dateStr, IF signed THEN 2 ELSE 1, 4 + o))
                 y == IF signed /\ dateStr[1] = "-" THEN 0 - digits ELSE digits
                 m == DigitsValue(SubSeq(dateStr, 6 + o, 7 + o))
                 d == DigitsValue(SubSeq(dateStr, 9 + o, 10 + o))
             IN  IF \/ m < 1 \/ m > 12 \/ d < 1 \/ d > 31
                    \/ (signed /\ dateStr[1] = "-" /\ digits = 0)
                 THEN InvalidDate
                 ELSE DateAt(MakeDay(y, m, d))

PadStart(s, n) == IF Len(s) >= n THEN s ELSE Zeros(n - Len(s)) \o s

\* d.toISOString().split('T')[0] of a valid Date
IsoDateOf(day) ==
    LET c == CivilFromDays(day)
        y == IF c.year >= 0 /\ c.year <= 9999
             THEN PadStart(NatToChars(c.year), 4)
             ELSE (IF c.year < 0 THEN <<"-">> ELSE <<"+">>)
                  \o PadStart(NatToChars(IF c.year < 0 THEN 0 - c.year ELSE c.year), 6)
    IN  y \o <<"-">> \o PadStart(NatToChars(c.month), 2)
          \o <<"-">> \o PadStart(NatToChars(c.date), 2)

\* a number that is a quotient of integers (den > 0), or NaN
NaNRatio == [nan |-> TRUE, num |-> 0, den |-> 1]
Ratio(num, den) == [nan |-> FALSE, num |-> num, den |-> den]

\* Math.round: the nearest integer, halves upwards
MathRound(q) == (2 * q.num + q.den) \div (2 * q.den)

\* addDays (lines 39-43): the text returned, or the RangeError that
\* toISOString throws for an Invalid Date
addDays(dateStr, days) ==
    LET d     == NewDate(dateStr)
        moved == IF ~d.valid \/ days.nan THEN InvalidDate
                 ELSE DateAt(d.day + MathRound(days))
    IN  IF moved.valid THEN [ok |-> TRUE, value |-> IsoDateOf(moved.day)]
        ELSE [ok |-> FALSE, value |-> Chars("RangeError: Invalid time value")]

\* daysBetween (lines 45-49)
daysBetween(a, b) ==
    LET da == NewDate(a)
        db_ == NewDate(b)
    IN  IF ~da.valid \/ ~db_.valid THEN NaNRatio
        ELSE Ratio(IF db_.day >= da.day THEN db_.day - da.day ELSE da.day - db_.day, 1)

\* ranges without their bounds
classifyFrequencyShifted(avgDays) ==
    IF avgDays.nan THEN "null"
    ELSE IF avgDays.num > 5 * avgDays.den /\ avgDays.num < 10 * avgDays.den THEN "weekly"
    ELSE IF avgDays.num > 25 * avgDays.den /\ avgDays.num < 38 * avgDays.den THEN "monthly"
    ELSE IF avgDays.num > 80 * avgDays.den /\ avgDays.num < 105 * avgDays.den THEN "quarterly"
    ELSE IF avgDays.num > 340 * avgDays.den /\ avgDays.num < 400 * avgDays.den THEN "annual"
    ELSE "null"

\* classifyFrequency (lines 31-37); "null" when no range holds avgDays
classifyFrequency(avgDays) ==
    IF avgDays.nan THEN "null"
    ELSE IF avgDays.num >= 5 * avgDays.den /\ avgDays.num <= 10 * avgDays.den THEN "weekly"
    ELSE IF avgDays.num >= 25 * avgDays.den /\ avgDays.num <= 38 * avgDays.den THEN "monthly"
    ELSE IF avgDays.num >= 80 * avgDays.den /\ avgDays.num <= 105 * avgDays.den THEN "quarterly"
    ELSE IF avgDays.num >= 340 * avgDays.den /\ avgDays.num <= 400 * avgDays.den THEN "annual"
    ELSE "null"

----------------------------------------------------------------------------
(* recurring.ts: detectRecurring *)

\* the k-th smallest index of a set of indices
IndexAt(S, k) == CHOOSE a \in S : Cardinality({b \in S : b < a}) = k - 1

\* the elements of seq at the indices in S, in index order
Subsequence(seq, S) == <<>> \o [n \in 1..Cardinality(S) |-> seq[IndexAt(S, n)]]

\* the collation order of the characters of date strings: punctuation, then
\* symbols, then digits, then letters
CollationOrder == Chars("-/+0123456789abcdefghijklmnopqrstuvwxyz")
CollationRank(c) ==
    LET at == {k \in 1..Len(CollationOrder) : CollationOrder[k] = LowerChar(c)}
    IN  IF at = {} THEN 0 ELSE CHOOSE k \in at : TRUE

\* a.localeCompare(b): negative, zero or positive; strings equal but for
\* letter case have the lower-case letter first
localeCompare(a, b) ==
    IF a = b THEN 0
    ELSE LET common == 1..Min2(Len(a), Len(b))
             cases  == {i \in common : a[i] # b[i]}
             diffs  == {i \in cases : CollationRank(a[i]) # CollationRank(b[i])}
         IN  IF diffs # {}
             THEN (IF CollationRank(a[IndexAt(diffs, 1)])
                         < CollationRank(b[IndexAt(diffs, 1)])
                   THEN 0 - 1 ELSE 1)
             ELSE IF Len(a) # Len(b) THEN (IF Len(a) < Len(b) THEN 0 - 1 ELSE 1)
             ELSE IF LowerChar(a[IndexAt(cases, 1)]) = a[IndexAt(cases, 1)]
             THEN 0 - 1 ELSE 1

\* no sort: the members stay in the order of the input
sortByDateSkipped(txns) == txns

\* a sort by date, latest first
sortByDateDescending(txns) ==
    LET before(j, i) ==
            \/ localeCompare(txns[j].date, txns[i].date) > 0
            \/ localeCompare(txns[j].date, txns[i].date) = 0 /\ j < i
        place(i) == 1 + Cardinality({j \in 1..Len(txns) : before(j, i)})
    IN  <<>> \o [n \in 1..Len(txns) |-> txns[CHOOSE i \in 1..Len(txns) : place(i) = n]]

\* txns.sort((a, b) => a.date.localeCompare(b.date)) (line 68); the sort is
\* stable
sortByDate(txns) ==
    LET before(j, i) ==
            \/ localeCompare(txns[j].date, txns[i].date) < 0
            \/ localeCompare(txns[j].date, txns[i].date) = 0 /\ j < i
        place(i) == 1 + Cardinality({j \in 1..Len(txns) : before(j, i)})
    IN  <<>> \o [n \in 1..Len(txns) |-> txns[CHOOSE i \in 1..Len(txns) : place(i) = n]]

\* lines 71-74
intervalsOf(txns) ==
    <<>> \o [i \in 1..(Len(txns) - 1) |-> daysBetween(txns[i].date, txns[i + 1].date)]

RECURSIVE SumDays(_)
SumDays(intervals) ==
    IF intervals = <<>> THEN 0 ELSE intervals[1].num + SumDays(Tail(intervals))

\* line 76: the sum over the length; NaN with a NaN interval, and for no
\* interval at all (0 / 0)
averageInterval(intervals) ==
    IF intervals = <<>> \/ \E i \in 1..Len(intervals) : intervals[i].nan
    THEN NaNRatio
    ELSE Ratio(SumDays(intervals), Len(intervals))

RECURSIVE SumSquares(_, _, _)
SumSquares(intervals, sum, n) ==
    IF intervals = <<>> THEN 0
    ELSE (n * intervals[1].num - sum) * (n * intervals[1].num - sum)
         + SumSquares(Tail(intervals), sum, n)

\* a gate that also rejects a standard deviation of exactly 10
exceedsToleranceAtTen(intervals, avgInterval) ==
    SumSquares(intervals, avgInterval.num, avgInterval.den)
        >= 100 * avgInterval.den * avgInterval.den * avgInterval.den

\* lines 81-83: stdDev > 10, that is: the squared deviations from the mean
\* sum to more than 100 times the number of intervals
exceedsTolerance(intervals, avgInterval) ==
    SumSquares(intervals, avgInterval.num, avgInterval.den)
        > 100 * avgInterval.den * avgInterval.den * avgInterval.den

RECURSIVE Pow10(_)
Pow10(n) == IF n = 0 THEN 1 ELSE 10 * Pow10(n - 1)

\* the sum of the amounts as an integer multiple of 10^e
RECURSIVE SumScaled(_, _)
SumScaled(txns, e) ==
    IF txns = <<>> THEN 0
    ELSE txns[1].amount.m * Pow10(txns[1].amount.x - e) + SumScaled(Tail(txns), e)

\* the amount of the first member, not rounded
averageAmountUnrounded(txns) ==
    IF \E i \in 1..Len(txns) : txns[i].amount.k # "num" THEN NaN
    ELSE txns[1].amount

\* lines 85 and 93: Math.round(avgAmount * 100) / 100. The mean is computed
\* exactly; the double computed by the code rounds the same way unless the
\* mean lies within rounding error of half a cent.
averageAmount(txns) ==
    IF \E i \in 1..Len(txns) : txns[i].amount.k = "NaN" THEN NaN
    ELSE IF \E i, j \in 1..Len(txns) :
                /\ txns[i].amount.k = "Infinity" /\ txns[j].amount.k = "Infinity"
                /\ txns[i].amount.m # txns[j].amount.m
    THEN NaN
    ELSE IF \E i \in 1..Len(txns) : txns[i].amount.k = "Infinity"
    THEN txns[CHOOSE i \in 1..Len(txns) : txns[i].amount.k = "Infinity"].amount
    ELSE LET exps  == {txns[i].amount.x : i \in 1..Len(txns)} \cup {0 - 2}
             e     == CHOOSE x \in exps : \A y \in exps : x <= y
             unit  == Pow10(0 - e - 2)
             total == SumScaled(txns, e)
         IN  Num((2 * total + Len(txns) * unit) \div (2 * Len(txns) * unit), 0 - 2)

\* the outcome of one pass of the loop of lines 64-99: the group is passed
\* over, a summary is pushed, or addDays throws
Continue == [kind |-> "continue"]

\* a summary that counts the gaps instead of the members
pushSummaryCountingGaps(normDesc, txns, avgInterval) ==
    CHOOSE outcome \in
        {IF ~next.ok THEN [kind |-> "throw", error |-> next.value]
         ELSE [kind |-> "push",
               summary |->
                  [description |-> normDesc,
                   category |-> IF txns[Len(txns)].category \in {Undefined, Some(<<>>)}
                                THEN Uncategorized
                                ELSE txns[Len(txns)].category[1],
                   frequency |-> classifyFrequency(avgInterval),
                   averageAmount |-> averageAmount(txns),
                   lastDate |-> txns[Len(txns)].date,
                   nextExpectedDate |-> next.value,
                   occurrences |-> Len(txns) - 1,
                   transactions |-> txns]] :
            next \in {addDays(txns[Len(txns)].date, avgInterval)}} : TRUE

\* lines 85-98, txns being sorted
pushSummary(normDesc, txns, avgInterval) ==
    CHOOSE outcome \in
        {IF ~next.ok THEN [kind |-> "throw", error |-> next.value]
         ELSE [kind |-> "push",
               summary |->
                  [description |-> normDesc,
                   category |-> IF txns[Len(txns)].category \in {Undefined, Some(<<>>)}
                                THEN Uncategorized
                                ELSE txns[Len(txns)].category[1],
                   frequency |-> classifyFrequency(avgInterval),
                   averageAmount |-> averageAmount(txns),
                   lastDate |-> txns[Len(txns)].date,
                   nextExpectedDate |-> next.value,
                   occurrences |-> Len(txns),
                   transactions |-> txns]] :
            next \in {addDays(txns[Len(txns)].date, avgInterval)}} : TRUE

\* a loop body without the frequency and consistency checks
groupSummaryUnchecked(normDesc, txns) ==
    IF Len(txns) < 2 THEN Continue
    ELSE CHOOSE outcome \in
        {CHOOSE checked \in
            {IF avgInterval.nan THEN Continue
             ELSE pushSummary(normDesc, sorted, avgInterval) :
                avgInterval \in {averageInterval(intervalsOf(sorted))}} : TRUE :
            sorted \in {sortByDate(txns)}} : TRUE

\* a loop body that asks for three members
groupSummaryFromThree(normDesc, txns) ==
    IF Len(txns) < 3 THEN Continue
    ELSE CHOOSE outcome \in
        {CHOOSE checked \in
            {IF classifyFrequency(averageInterval(intervals)) = "null" THEN Continue
             ELSE IF exceedsTolerance(intervals, averageInterval(intervals)) THEN Continue
             ELSE pushSummary(normDesc, sorted, averageInterval(intervals)) :
                intervals \in {intervalsOf(sorted)}} : TRUE :
            sorted \in {sortByDate(txns)}} : TRUE

\* the loop body, lines 65-98
groupSummary(normDesc, txns) ==
    IF Len(txns) < 2 THEN Continue
    ELSE CHOOSE outcome \in
        {CHOOSE checked \in
            {IF classifyFrequency(averageInterval(intervals)) = "null" THEN Continue
             ELSE IF exceedsTolerance(intervals, averageInterval(intervals)) THEN Continue
             ELSE pushSummary(normDesc, sorted, averageInterval(intervals)) :
                intervals \in {intervalsOf(sorted)}} : TRUE :
            sorted \in {sortByDate(txns)}} : TRUE

\* a sort that puts the later of two tied summaries first
sortByOccurrencesTiesReversed(results) ==
    LET before(j, i) ==
            \/ results[j].occurrences > results[i].occurrences
            \/ results[j].occurrences = results[i].occurrences /\ j > i
        place(i) == 1 + Cardinality({j \in 1..Len(results) : before(j, i)})
    IN  <<>> \o [n \in 1..Len(results) |->
                    results[CHOOSE i \in 1..Len(results) : place(i) = n]]

\* results.sort((a, b) => b.occurrences - a.occurrences) (line 102); the
\* sort is stable
sortByOccurrences(results) ==
    LET before(j, i) ==
            \/ results[j].occurrences > results[i].occurrences
            \/ results[j].occurrences = results[i].occurrences /\ j < i
        place(i) == 1 + Cardinality({j \in 1..Len(results) : before(j, i)})
    IN  <<>> \o [n \in 1..Len(results) |->
                    results[CHOOSE i \in 1..Len(results) : place(i) = n]]

\* lines 53-60: the keys of the Map in insertion order, and the group of a key
groupKeys(keys) ==
    Subsequence(keys, {i \in 1..Len(keys) :
                          keys[i] # <<>> /\ \A j \in 1..(i - 1) : keys[j] # keys[i]})

groupOf(transactions, keys, normDesc) ==
    Subsequence(transactions, {j \in 1..Len(keys) : keys[j] = normDesc})

\* the outcomes of the passes of the loop of lines 64-99
groupOutcomes(transactions) ==
    CHOOSE outcomes \in
        {<<>> \o [n \in 1..Len(groupKeys(keys)) |->
                    groupSummary(groupKeys(keys)[n],
                                 groupOf(transactions, keys, groupKeys(keys)[n]))] :
            keys \in {<<>> \o [i \in 1..Len(transactions) |->
                                  normalizeDescription(transactions[i].description)]}} : TRUE

\* a detector that sorts the array it was handed
transactionsSortedInPlace(transactions) == sortByDate(transactions)

\* the caller's array after the call. Lines 54-60 only read it: each element
\* is pushed onto an array of the Map (a new one, or the one the Map holds),
\* and line 68 sorts those arrays; no statement writes to the parameter or
\* to a field of a transaction.
transactionsAfter(transactions) == transactions

\* the result of detectRecurring: the array returned, or the error thrown
detectRecurring(transactions) ==
    CHOOSE result \in
        {IF \E n \in 1..Len(outcomes) : outcomes[n].kind = "throw"
         THEN [ok |-> FALSE, results |-> <<>>,
               error |-> outcomes[CHOOSE n \in 1..Len(outcomes) :
                                      /\ outcomes[n].kind = "throw"
                                      /\ \A q \in 1..(n - 1) :
                                             outcomes[q].kind # "throw"].error]
         ELSE [ok |-> TRUE,
               results |-> sortByOccurrences(
                   [n \in 1..Cardinality({q \in 1..Len(outcomes) :
                                             outcomes[q].kind = "push"}) |->
                       outcomes[IndexAt({q \in 1..Len(outcomes) :
                                            outcomes[q].kind = "push"}, n)].summary]),
               error |-> <<>>] :
            outcomes \in {groupOutcomes(transactions)}} : TRUE

----------------------------------------------------------------------------
(* Detector harness: a sequence of stored transactions in, the result of    *)
(* detectRecurring out; then the same transactions in another order.        *)

Txn(description, date, amount, category) ==
    [id |-> generateId(date, description, amount, "chase_checking"),
     date |-> date,
     description |-> description,
     amount |-> amount,
     type |-> IF LessThanZero(amount) THEN "debit" ELSE "credit",
     balance |-> Undefined,
     category |-> category,
     account |-> Chars("main"),
     source |-> "chase_checking"]

\* day gaps at, inside and outside the bounds of the frequency ranges, for
\* the last gap of a payee; the gaps before it are steady ones
GapValues == {4, 5, 10, 11, 24, 25, 38, 39, 45, 80, 105, 106, 340, 400}
SteadyGaps == {10, 25, 45, 80}

GapInputs ==
    {<<>>} \cup {Append(steady, last) :
                    steady \in SeqsUpTo(SteadyGaps, MaxGaps - 1), last \in GapValues}

FirstDay == MakeDay(2024, 1, 15)

\* descriptions of one payee, with the noise that normalizeDescription drops
PayeeTexts == <<Chars("Netflix #1"), Chars("NETFLIX 2/14"), Chars("netflix"),
                Chars("Netflix  2024-03-15"), Chars("NETFLIX $15.99"),
                Chars("netflix 123456")>>

PayeeCategories == <<Undefined, Some(Chars("Subscriptions")), Some(Chars("Entertainment")),
                     Undefined, Some(Chars("Subscriptions")), Undefined>>

RECURSIVE SumTo(_, _)
SumTo(gaps, n) == IF n = 0 THEN 0 ELSE gaps[n] + SumTo(gaps, n - 1)

\* one payee paid at the given gaps from the start day on; the latest payment
\* comes first in the sequence
Payments(start, gaps, amount) ==
    <<>> \o Reverse([i \in 1..(Len(gaps) + 1) |->
                Txn(PayeeTexts[i], IsoDateOf(start + SumTo(gaps, i - 1)), amount,
                    PayeeCategories[i])])

\* one payee paid on the given dates, listed as given
PaymentsOn(dates, amount) ==
    <<>> \o [i \in 1..Len(dates) |-> Txn(PayeeTexts[i], dates[i], amount, PayeeCategories[i])]

TxnPool == {
    Txn(Chars("Gym"), Chars("2024-01-01"), Num(0 - 10, 0), Some(Chars("Fitness"))),
    Txn(Chars("GYM #77"), Chars("2024-01-08"), Num(0 - 125, 0 - 1), Undefined),
    Txn(Chars("gym"), Chars("not-a-date"), Num(0 - 10, 0), Undefined),
    Txn(Chars("12345"), Chars("2024-01-01"), Num(0 - 10, 0), Undefined) }

TxnAt(description, date) ==
    CHOOSE t \in TxnPool : t.description = Chars(description) /\ t.date = Chars(date)

Rents == <<
    Txn(Chars("Rent"), Chars("2024-01-01"), Num(0 - 900, 0), Undefined),
    Txn(Chars("rent 2/1"), Chars("2024-02-01"), Num(0 - 900, 0),
        Some(Chars("Rent/Mortgage"))),
    Txn(Chars("RENT 0301"), Chars("2024-03-01"), Num(0 - 900, 0), Undefined) >>

Scenarios == {
    \* six payments 30 days apart at -15.99
    Payments(FirstDay, <<30, 30, 30, 30, 30>>, Num(0 - 1599, 0 - 2)),
    \* gaps of 5, 95, 12 and 200 days
    Payments(FirstDay, <<5, 95, 12, 200>>, Num(0 - 1599, 0 - 2)),
    \* weekly payments of an amount with three decimals
    Payments(FirstDay, <<7, 7>>, Num(0 - 1234, 0 - 3)),
    \* weekly payments up to the last day a Date can hold
    Payments(MaxDay - 14, <<7, 7>>, Num(0 - 1599, 0 - 2)),
    \* weekly payments, one of them on a 31st of February, which a Date
    \* reads as the 2nd of March
    PaymentsOn(<<Chars("2024-03-01"), Chars("2024-02-31"), Chars("2024-02-24"),
                 Chars("2024-02-17")>>, Num(0 - 1599, 0 - 2)),
    \* payments five days apart, in the years 9999 and 10000
    PaymentsOn(<<Chars("+010000-01-01"), Chars("9999-12-27")>>, Num(0 - 1599, 0 - 2)),
    \* two payments a week apart with descriptions that normalize to the
    \* empty text
    <<Txn(Chars("#77 $5.00"), Chars("2024-01-08"), Num(0 - 10, 0), Undefined),
      TxnAt("12345", "2024-01-01")>>,
    \* two payees with two payments each
    <<TxnAt("Gym", "2024-01-01"), Rents[1], TxnAt("GYM #77", "2024-01-08"), Rents[2]>>,
    \* the payee met first has fewer payments
    <<TxnAt("Gym", "2024-01-01"), Rents[1], Rents[2], TxnAt("GYM #77", "2024-01-08"),
      Rents[3]>> }

DetectInputs ==
    {Payments(FirstDay, gaps, Num(0 - 1599, 0 - 2)) : gaps \in GapInputs}
    \cup SeqsUpTo(TxnPool, MaxTxns)
    \cup Scenarios

InitDetect ==
    /\ db = <<>>
    /\ reqs = <<>>
    /\ pending = {}
    /\ responses = <<>>
    /\ \E transactions \in DetectInputs : input = [NoInput EXCEPT !.lines = transactions]
    /\ calls = <<>>

Detect ==
    /\ calls = <<>>
    /\ \E result \in {detectRecurring(input.lines)}, after \in {transactionsAfter(input.lines)} :
           /\ calls' = <<[transactions |-> input.lines, after |-> after, result |-> result]>>
           /\ input' = [input EXCEPT !.lines = after]
    /\ UNCHANGED <<db, reqs, pending, responses>>

\* the same transactions in other orders: reversed, the first one moved to
\* the end, the first two exchanged
Reorderings(transactions) ==
    {<<>> \o Reverse(transactions)}
    \cup (IF Len(transactions) < 3 THEN {}
          ELSE {Tail(transactions) \o <<transactions[1]>>,
                <<transactions[2], transactions[1]>> \o Tail(Tail(transactions))})

DetectAgain ==
    /\ Len(calls) = 1
    /\ \E transactions \in Reorderings(input.lines) :
       \E result \in {detectRecurring(transactions)}, after \in {transactionsAfter(transactions)} :
           calls' = Append(calls, [transactions |-> transactions, after |-> after,
                                   result |-> result])
    /\ UNCHANGED <<db, reqs, pending, responses, input>>

NextDetect == Detect \/ DetectAgain

SpecDetect == InitDetect /\ [][NextDetect]_vars

----------------------------------------------------------------------------
(* Properties of the tokenizer (SpecTok) *)

QuotesBefore(line, i) == Cardinality({j \in 1..(i - 1) : line[j] = Quote})

\* the commas with an even number of double quotes before them
CommasOutsideQuotes(line) ==
    {i \in 1..Len(line) : line[i] = "," /\ QuotesBefore(line, i) % 2 = 0}

\* the k-th smallest element of a set of numbers
NthOf(S, k) == CHOOSE a \in S : Cardinality({b \in S : b < a}) = k - 1

\* the text between the (k-1)-th and the k-th comma outside quotes, without
\* its delimiting quotes, a "" pair inside quotes kept as one quote, trimmed
ExpectedField(line, k) ==
    LET commas == CommasOutsideQuotes(line)
        from   == IF k = 1 THEN 1 ELSE NthOf(commas, k - 1) + 1
        to     == IF k > Cardinality(commas) THEN Len(line) ELSE NthOf(commas, k) - 1
        kept   == {j \in from..to :
                      \/ line[j] # Quote
                      \/ /\ QuotesBefore(line, j) % 2 = 1
                         /\ j + 1 <= Len(line)
                         /\ line[j + 1] = Quote}
    IN  Trim([n \in 1..Cardinality(kept) |-> line[NthOf(kept, n)]])

\* C10: a line is split at exactly the commas outside double quotes (one
\* field more than there are such commas); each field is the text between
\* them with the delimiting quotes removed, every "" pair inside quotes kept
\* as one quote character, and trimmed; the example row of the specification
\* has the description Payment, Thank You.
C10_Tokenization ==
    \A n \in 1..Len(calls) :
        LET line   == Trim(calls[n].raw)
            fields == calls[n].rows[1]
        IN  /\ Len(calls[n].rows) = 1
            /\ Len(fields) = Cardinality(CommasOutsideQuotes(line)) + 1
            /\ \A k \in 1..Len(fields) :
                   /\ fields[k] = ExpectedField(line, k)
                   /\ fields[k] = Trim(fields[k])
            /\ calls[n].raw = SpecExampleRow =>
                   /\ Len(fields) = 7
                   /\ fields[3] = Chars("Payment, Thank You")

C10_Witness ==
    /\ Len(calls) = 1
    /\ calls[1].raw = SpecExampleRow
    /\ calls[1].rows[1][3] = Chars("Payment, Thank You")

----------------------------------------------------------------------------
(* Properties of parseCsv (SpecParse) *)

\* the rows of a file that parseCsv converts: the non-blank rows after the
\* header
DataRows(rows) == SelectSeq(Tail(rows), LAMBDA r : ~IsBlankRow(r))

\* the calls that returned transactions
Returned == {n \in 1..Len(calls) : calls[n].result.ok}

Transactions(n) == calls[n].result.transactions

\* the column that holds the date and the amount in each layout
DateColumn(format) == IF format = "chase_checking" THEN 2 ELSE 1
AmountColumn(format) == IF format = "chase_checking" THEN 4 ELSE 6

\* C3: within a call and across calls (another account label, another row
\* position, another balance, type or category column), two transactions
\* with the same date, description, amount and source have the same id.
C3_IdentityDeterminism ==
    \A n1 \in Returned, n2 \in Returned :
        \A k1 \in 1..Len(Transactions(n1)), k2 \in 1..Len(Transactions(n2)) :
            LET t1 == Transactions(n1)[k1]
                t2 == Transactions(n2)[k2]
            IN  (/\ t1.date = t2.date
                 /\ t1.description = t2.description
                 /\ t1.amount = t2.amount
                 /\ t1.source = t2.source) => t1.id = t2.id

\* the row parsed under two account labels, and one call holding the same
\* transaction at two positions with different balances
C3_Witness ==
    /\ Len(calls) = 2
    /\ Returned = {1, 2}
    /\ calls[1].account # calls[2].account
    /\ \E k1, k2 \in 1..Len(Transactions(1)) :
          /\ k1 # k2
          /\ Transactions(1)[k1].id = Transactions(1)[k2].id
          /\ Transactions(1)[k1].balance # Transactions(1)[k2].balance
    /\ \E k \in 1..Len(Transactions(2)) : Transactions(2)[k].id = Transactions(1)[1].id

GreaterThanZero(n) == n.k # "NaN" /\ n.m > 0

\* C5: a credit-layout row with a positive raw amount gives a negative
\* amount of type debit, one with a negative raw amount a positive amount of
\* type credit; a checking-layout row keeps its raw amount; in both layouts
\* the type is debit exactly when the amount is below zero.
C5_SignConvention ==
    \A n \in Returned :
        LET data == DataRows(calls[n].rows)
            fmt  == calls[n].result.format
        IN  \A k \in 1..Len(Transactions(n)) :
                LET t         == Transactions(n)[k]
                    rawAmount == parseFloat(data[k][AmountColumn(fmt)])
                IN  /\ fmt = "chase_credit" /\ GreaterThanZero(rawAmount)
                           => LessThanZero(t.amount) /\ t.type = "debit"
                    /\ fmt = "chase_credit" /\ LessThanZero(rawAmount)
                           => GreaterThanZero(t.amount) /\ t.type = "credit"
                    /\ fmt = "chase_checking" => t.amount = rawAmount
                    /\ t.type = "debit" <=> LessThanZero(t.amount)
                    /\ t.type \in {"debit", "credit"}

C5_Witness ==
    \E n \in Returned :
        /\ calls[n].result.format = "chase_credit"
        /\ \E k \in 1..Len(Transactions(n)) :
              /\ Transactions(n)[k].amount = Num(0 - 1599, 0 - 2)
              /\ Transactions(n)[k].type = "debit"
        /\ \E k \in 1..Len(Transactions(n)) :
              /\ Transactions(n)[k].amount = Num(425, 0 - 1)
              /\ Transactions(n)[k].type = "credit"

AllDigits(s) == \A i \in 1..Len(s) : IsDigit(s[i])

\* M/D/YYYY: one or two digits, one or two digits, four digits
IsMonthDayYear(s) ==
    LET parts == Split(s, "/")
    IN  /\ Len(parts) = 3
        /\ Len(parts[1]) \in {1, 2} /\ AllDigits(parts[1])
        /\ Len(parts[2]) \in {1, 2} /\ AllDigits(parts[2])
        /\ Len(parts[3]) = 4 /\ AllDigits(parts[3])

\* YYYY-MM-DD
IsIsoDate(s) ==
    /\ Len(s) = 10
    /\ s[5] = "-" /\ s[8] = "-"
    /\ \A i \in {1, 2, 3, 4, 6, 7, 9, 10} : IsDigit(s[i])

\* C6: parseCsv returns transactions only if every data row's date field has
\* the shape M/D/YYYY, and every transaction returned has a date of the form
\* YYYY-MM-DD.
C6_DateValidation ==
    \A n \in Returned :
        LET data == DataRows(calls[n].rows)
            fmt  == calls[n].result.format
        IN  \A k \in 1..Len(Transactions(n)) :
                /\ IsMonthDayYear(data[k][DateColumn(fmt)])
                /\ IsIsoDate(Transactions(n)[k].date)

\* a date field written year first, returned as a transaction
C6_Witness ==
    \E n \in Returned : \E k \in 1..Len(Transactions(n)) :
        /\ DataRows(calls[n].rows)[k][2] = Chars("2024/03/04")
        /\ Transactions(n)[k].date = Chars("04-2024-03")

\* an optional sign, then digits with an optional fraction, and nothing else
IsDecimalText(s) ==
    LET p  == IF s # <<>> /\ s[1] \in {"-", "+"} THEN 2 ELSE 1
        ni == DigitRun(s, p)
        nf == IF p + ni <= Len(s) /\ s[p + ni] = "." THEN DigitRun(s, p + ni + 1) ELSE 0
        q  == IF p + ni <= Len(s) /\ s[p + ni] = "." THEN p + ni + 1 + nf ELSE p + ni
    IN  ni + nf >= 1 /\ q = Len(s) + 1

\* C7: parseCsv returns transactions only if the amount field of every data
\* row is, in its entirety, a decimal number.
C7_AmountValidation ==
    \A n \in Returned :
        LET data == DataRows(calls[n].rows)
            fmt  == calls[n].result.format
        IN  \A k \in 1..Len(data) : IsDecimalText(data[k][AmountColumn(fmt)])

\* an amount with a thousands separator, returned as the amount 1
C7_Witness ==
    \E n \in Returned : \E k \in 1..Len(Transactions(n)) :
        /\ DataRows(calls[n].rows)[k][4] = Chars("1,200.00")
        /\ Transactions(n)[k].amount = Num(1, 0)

\* the layout the first line of the file calls for
HeaderHas(header, text) == Includes(ToLowerCase(header), Chars(text))
ExpectedFormat(header) ==
    IF HeaderHas(header, "balance") /\ HeaderHas(header, "posting date")
    THEN "chase_checking"
    ELSE IF HeaderHas(header, "category") /\ HeaderHas(header, "transaction date")
    THEN "chase_credit"
    ELSE "none"

\* C8: for a file of a header and at least one more line, the layout is
\* decided by the header alone, whatever the letter case: checking when it
\* contains "balance" and "posting date" (also when it contains "category"
\* and "transaction date" too), else credit when it contains "category" and
\* "transaction date", else parseCsv fails with "Unrecognized CSV format"
\* and no row is converted, whatever the data rows are.
C8_FormatDetection ==
    \A n \in 1..Len(calls) :
        Len(calls[n].rows) >= 2 =>
            LET want == ExpectedFormat(input.header)
                got  == calls[n].result
            IN  IF want = "none"
                THEN /\ ~got.ok
                     /\ got.error.msg = "Unrecognized CSV format. Headers: "
                     /\ got.transactions = <<>>
                     /\ got.consulted = <<>>
                ELSE got.format = want

\* a header with both pairs of names, in upper and lower case, read as the
\* checking layout
C8_Witness ==
    /\ input.header = BothHeader
    /\ Len(calls) = 1
    /\ calls[1].result.ok
    /\ calls[1].result.format = "chase_checking"
    /\ ExpectedFormat(input.header) = "chase_checking"

\* C9: a transaction of the checking layout has the category
\* categorize(description); one of the credit layout has the row's category
\* column when that is not empty and no category otherwise, and categorize is
\* not called for credit rows.
C9_CategoryAsymmetry ==
    \A n \in Returned :
        LET data == DataRows(calls[n].rows)
            got  == calls[n].result
        IN  /\ Len(got.transactions) = Len(data)
            /\ \A k \in 1..Len(got.transactions) :
                   LET t == got.transactions[k]
                   IN  IF t.source = "chase_checking"
                       THEN t.category = Some(categorize(t.description))
                       ELSE t.category = IF data[k][4] = <<>> THEN Undefined
                                         ELSE Some(data[k][4])
            /\ got.format = "chase_credit" => got.consulted = <<>>
            /\ got.format = "chase_checking" =>
                   got.consulted = [k \in 1..Len(data) |-> data[k][3]]

C9_Witness ==
    \E n \in Returned :
        /\ calls[n].result.format = "chase_credit"
        /\ \E k \in 1..Len(Transactions(n)) : Transactions(n)[k].category = Undefined
        /\ \E k \in 1..Len(Transactions(n)) :
              Transactions(n)[k].category = Some(Chars("Entertainment"))

KeyOf(t) == t.id.sha256

SameTuple(t, u) ==
    /\ t.date = u.date
    /\ t.description = u.description
    /\ t.amount = u.amount
    /\ t.source = u.source

HasBar(s) == \E i \in 1..Len(s) : s[i] = "|"

\* C24: two transactions of one parse that differ in date, description,
\* amount or source have different texts date|description|amount|source.
C24_KeyInjective ==
    \A n \in 1..Len(calls) :
        calls[n].result.ok =>
            \A i, j \in 1..Len(calls[n].result.transactions) :
                ~SameTuple(calls[n].result.transactions[i], calls[n].result.transactions[j])
                    => KeyOf(calls[n].result.transactions[i])
                           # KeyOf(calls[n].result.transactions[j])

\* an accepted file with the rows 3/04/2024, x|y and 3/04|x/2024, y: two
\* dates, two descriptions, one text 2024-03-04|x|y|-1|chase_checking
C24_Witness ==
    /\ Len(calls) >= 1
    /\ calls[1].result.ok
    /\ Len(calls[1].result.transactions) = 2
    /\ calls[1].result.transactions[1].date = Chars("2024-03-04")
    /\ calls[1].result.transactions[1].description = Chars("x|y")
    /\ calls[1].result.transactions[2].date = Chars("2024-03-04|x")
    /\ calls[1].result.transactions[2].description = Chars("y")
    /\ KeyOf(calls[1].result.transactions[1]) = Chars("2024-03-04|x|y|-1|chase_checking")
    /\ calls[1].result.transactions[1].id = calls[1].result.transactions[2].id

\* the texts do differ when no date holds a |, whatever the descriptions hold
C24_KeyInjectiveForDatesWithoutBar ==
    \A n \in 1..Len(calls) :
        calls[n].result.ok =>
            \A i, j \in 1..Len(calls[n].result.transactions) :
                /\ ~SameTuple(calls[n].result.transactions[i],
                              calls[n].result.transactions[j])
                /\ ~HasBar(calls[n].result.transactions[i].date)
                /\ ~HasBar(calls[n].result.transactions[j].date)
                => KeyOf(calls[n].result.transactions[i])
                       # KeyOf(calls[n].result.transactions[j])

\* descriptions x|y and x|z on one date: two texts
C24_WitnessDescriptions ==
    /\ Len(calls) >= 1
    /\ calls[1].result.ok
    /\ Len(calls[1].result.transactions) = 2
    /\ calls[1].result.transactions[1].description = Chars("x|y")
    /\ calls[1].result.transactions[2].description = Chars("x|z")
    /\ calls[1].result.transactions[1].id # calls[1].result.transactions[2].id

----------------------------------------------------------------------------
(* Properties of categorize (SpecCat) *)

MatchingRules(description) ==
    {r \in 1..Len(rules) : RuleTest(rules[r], description)}

\* C12: for every description, the empty one included, categorize returns
\* the category of the first rule in list order whose pattern matches and
\* "Uncategorized" when none matches; a second call with the same description
\* returns the same category, and a call changes nothing else.
C12_CategorizeFirstMatch ==
    /\ \A n \in 1..Len(calls) :
           LET description == calls[n].raw
               matching    == MatchingRules(description)
           IN  /\ matching = {} => calls[n].category = Uncategorized
               /\ matching # {} =>
                      \E r \in matching :
                          /\ \A q \in matching : r <= q
                          /\ calls[n].category = rules[r].category
               /\ description = <<>> => calls[n].category = Uncategorized
               /\ description = Chars("amazon prime") =>
                      calls[n].category = Chars("Subscriptions")
               /\ calls[n].category = calls[1].category
    /\ db = <<>> /\ responses = <<>>

\* a description two rules match, categorized twice
C12_Witness ==
    /\ Len(calls) = 2
    /\ calls[1].raw = Chars("gas rent")
    /\ Cardinality(MatchingRules(calls[1].raw)) = 2
    /\ calls[2].category = Chars("Rent/Mortgage")

----------------------------------------------------------------------------
(* Properties of detectRecurring (SpecDetect) *)

\* the normalized descriptions of the transactions handed to call n
CallKeys(n) ==
    <<>> \o [i \in 1..Len(calls[n].transactions) |->
                normalizeDescription(calls[n].transactions[i].description)]

\* the summaries call n returned
Summaries(n) == calls[n].result.results

FirstIndex(keys, key) ==
    CHOOSE i \in 1..Len(keys) : keys[i] = key /\ \A j \in 1..(i - 1) : keys[j] # key

\* C13: the summaries come in non-increasing order of occurrences, and of
\* two summaries with equal occurrences the one whose normalized description
\* is met first in the input comes first.
C13_OutputOrder ==
    \A n \in 1..Len(calls) : \A keys \in {CallKeys(n)} :
        \A i, j \in 1..Len(Summaries(n)) :
            i < j =>
                /\ Summaries(n)[i].occurrences >= Summaries(n)[j].occurrences
                /\ Summaries(n)[i].occurrences = Summaries(n)[j].occurrences =>
                       FirstIndex(keys, Summaries(n)[i].description)
                           < FirstIndex(keys, Summaries(n)[j].description)

\* two payees with two payments each, in both input orders: the payee met
\* first is listed first
C13_Witness ==
    /\ Len(calls) = 2
    /\ Len(Summaries(1)) = 2
    /\ Summaries(1)[1].occurrences = 2
    /\ Summaries(1)[2].occurrences = 2
    /\ Summaries(1)[1].description = Chars("GYM")
    /\ Summaries(2)[1].description = Chars("RENT")
    /\ Summaries(2)[2].description = Chars("GYM")

\* the positions in the input of call n whose normalized description is key
MembersAt(keys, key) == {i \in 1..Len(keys) : keys[i] = key}

\* C14: every summary counts at least two occurrences, as many as it lists
\* transactions; a normalized description carried by exactly one input
\* transaction has no summary.
C14_MinimumCardinality ==
    \A n \in 1..Len(calls) : \A keys \in {CallKeys(n)} :
        /\ \A i \in 1..Len(Summaries(n)) :
               /\ Summaries(n)[i].occurrences >= 2
               /\ Summaries(n)[i].occurrences = Len(Summaries(n)[i].transactions)
               /\ Summaries(n)[i].occurrences
                      = Cardinality(MembersAt(keys, Summaries(n)[i].description))
        /\ \A k \in 1..Len(keys) :
               Cardinality(MembersAt(keys, keys[k])) = 1 =>
                   \A i \in 1..Len(Summaries(n)) : Summaries(n)[i].description # keys[k]

\* a payee with two payments is reported next to a payee with one payment
C14_Witness ==
    /\ Len(calls) >= 1
    /\ calls[1].result.ok
    /\ Len(Summaries(1)) = 1
    /\ Summaries(1)[1].occurrences = 2
    /\ \E k \in 1..Len(calls[1].transactions) :
           Cardinality(MembersAt(CallKeys(1), CallKeys(1)[k])) = 1

DayOf(t) == NewDate(t.date).day

AbsDiff(a, b) == IF a >= b THEN a - b ELSE b - a

\* the sum of the day gaps between consecutive transactions of a list
RECURSIVE GapSum(_, _)
GapSum(txns, i) ==
    IF i >= Len(txns) THEN 0
    ELSE AbsDiff(DayOf(txns[i + 1]), DayOf(txns[i])) + GapSum(txns, i + 1)

\* the range that holds the mean sum / n, if any
RangeOfMean(sum, n) ==
    IF 5 * n <= sum /\ sum <= 10 * n THEN "weekly"
    ELSE IF 25 * n <= sum /\ sum <= 38 * n THEN "monthly"
    ELSE IF 80 * n <= sum /\ sum <= 105 * n THEN "quarterly"
    ELSE IF 340 * n <= sum /\ sum <= 400 * n THEN "annual"
    ELSE "none"

\* the input transactions of call n with the given normalized description
GroupAt(n, keys, key) == {calls[n].transactions[i] : i \in MembersAt(keys, key)}

\* the date text of t is a day of the calendar with a four-digit year: of
\* such dates the earlier one is the one whose text sorts first
CalendarDate(t) ==
    /\ Len(t.date) = 10
    /\ NewDate(t.date).valid
    /\ IsoDateOf(DayOf(t)) = t.date

DatedGroup(group) == \A t \in group : CalendarDate(t)

\* the days between the earliest and the latest transaction of a group: the
\* sum of its consecutive gaps
Span(group) ==
    (CHOOSE d \in {DayOf(t) : t \in group} : \A t \in group : DayOf(t) <= d)
    - (CHOOSE d \in {DayOf(t) : t \in group} : \A t \in group : DayOf(t) >= d)

Reported(n, key) == \E i \in 1..Len(Summaries(n)) : Summaries(n)[i].description = key

\* C15: the mean of the consecutive day gaps of every reported group lies in
\* one of [5,10], [25,38], [80,105], [340,400] and its frequency is the one of
\* that range; a group with a mean gap outside the four ranges is not
\* reported; two payments exactly 5, 10, 25, 38, 80, 105, 340 or 400 days
\* apart are reported.
C15_FrequencyClassification ==
    \A n \in 1..Len(calls) : \A keys \in {CallKeys(n)} :
        /\ \A i \in 1..Len(Summaries(n)) :
               \E txns \in {Summaries(n)[i].transactions} :
                   /\ \A k \in 1..Len(txns) : NewDate(txns[k].date).valid
                   /\ Summaries(n)[i].frequency
                          = RangeOfMean(GapSum(txns, 1), Len(txns) - 1)
        /\ \A k \in 1..Len(keys) :
               \E group \in {GroupAt(n, keys, keys[k])} :
                   /\ Cardinality(MembersAt(keys, keys[k])) >= 2
                      /\ DatedGroup(group)
                      /\ RangeOfMean(Span(group),
                                     Cardinality(MembersAt(keys, keys[k])) - 1) = "none"
                      => ~Reported(n, keys[k])
                   /\ Cardinality(MembersAt(keys, keys[k])) = 2
                      /\ DatedGroup(group)
                      /\ Span(group) \in {5, 10, 25, 38, 80, 105, 340, 400}
                      /\ calls[n].result.ok
                      => Reported(n, keys[k])

\* two payments 105 days apart are reported as quarterly
C15_Witness ==
    /\ Len(calls) >= 1
    /\ Len(calls[1].transactions) = 2
    /\ Len(Summaries(1)) = 1
    /\ Summaries(1)[1].frequency = "quarterly"
    /\ GapSum(Summaries(1)[1].transactions, 1) = 105

\* three payments 10 and 11 days apart, a mean of 10.5 days, are not reported
C15_WitnessOutside ==
    /\ Len(calls) >= 1
    /\ Len(calls[1].transactions) = 3
    /\ DatedGroup(GroupAt(1, CallKeys(1), CallKeys(1)[1]))
    /\ Span(GroupAt(1, CallKeys(1), CallKeys(1)[1])) = 21
    /\ calls[1].result.ok
    /\ Summaries(1) = <<>>

\* n^2 times the sum of the squared deviations of the n consecutive day gaps
\* of a list from their mean sum / n
RECURSIVE DeviationSum(_, _, _, _)
DeviationSum(txns, i, sum, n) ==
    IF i >= Len(txns) THEN 0
    ELSE (n * AbsDiff(DayOf(txns[i + 1]), DayOf(txns[i])) - sum)
             * (n * AbsDiff(DayOf(txns[i + 1]), DayOf(txns[i])) - sum)
         + DeviationSum(txns, i + 1, sum, n)

\* the standard deviation of the gaps of a list is at most 10 days
WithinTolerance(txns) ==
    DeviationSum(txns, 1, GapSum(txns, 1), Len(txns) - 1)
        <= 100 * (Len(txns) - 1) * (Len(txns) - 1) * (Len(txns) - 1)

\* at least two transactions of one payee, with a normalized description
\* that is not empty, on calendar dates, listed in the order of their dates
\* or in the opposite order
OneGroupInDateOrder(n) ==
    /\ Len(calls[n].transactions) >= 2
    /\ CallKeys(n)[1] # <<>>
    /\ Cardinality({CallKeys(n)[i] : i \in 1..Len(calls[n].transactions)}) = 1
    /\ \A i \in 1..Len(calls[n].transactions) : CalendarDate(calls[n].transactions[i])
    /\ GapSum(calls[n].transactions, 1)
           = AbsDiff(DayOf(calls[n].transactions[1]),
                     DayOf(calls[n].transactions[Len(calls[n].transactions)]))

\* C16: the squared deviations of the gaps of every reported group from their
\* mean sum to at most 100 times the number of gaps; a group whose mean gap
\* is in a frequency range is reported exactly when its standard deviation is
\* at most 10 days, a deviation of exactly 10 included.
C16_ConsistencyGate ==
    \A n \in 1..Len(calls) :
        /\ \A i \in 1..Len(Summaries(n)) : WithinTolerance(Summaries(n)[i].transactions)
        /\ /\ OneGroupInDateOrder(n)
           /\ calls[n].result.ok
           /\ RangeOfMean(GapSum(calls[n].transactions, 1),
                          Len(calls[n].transactions) - 1) # "none"
           => (Len(Summaries(n)) = 1 <=> WithinTolerance(calls[n].transactions))

\* gaps of 25 and 45 days, a standard deviation of exactly 10, are reported
C16_Witness ==
    /\ Len(calls) >= 1
    /\ OneGroupInDateOrder(1)
    /\ Len(calls[1].transactions) = 3
    /\ GapSum(calls[1].transactions, 1) = 70
    /\ DeviationSum(calls[1].transactions, 1, 70, 2) = 800
    /\ Len(Summaries(1)) = 1
    /\ Summaries(1)[1].frequency = "monthly"

\* gaps of 80 and 105 days, a mean of 92.5 in the quarterly range with a
\* standard deviation of 12.5, are not reported
C16_WitnessRejected ==
    /\ Len(calls) >= 1
    /\ OneGroupInDateOrder(1)
    /\ GapSum(calls[1].transactions, 1) = 185
    /\ RangeOfMean(185, 2) = "quarterly"
    /\ ~WithinTolerance(calls[1].transactions)
    /\ calls[1].result.ok
    /\ Summaries(1) = <<>>

\* the days between the first two transactions handed to call n
FirstGap(n) ==
    IF Len(calls[n].transactions) < 2 THEN 0
    ELSE AbsDiff(DayOf(calls[n].transactions[2]), DayOf(calls[n].transactions[1]))

\* at least two transactions of one payee on calendar dates, all of the same
\* amount, with consecutive dates exactly d days apart
RegularInput(n, d) ==
    /\ OneGroupInDateOrder(n)
    /\ \A i \in 1..(Len(calls[n].transactions) - 1) :
           /\ AbsDiff(DayOf(calls[n].transactions[i + 1]), DayOf(calls[n].transactions[i])) = d
           /\ calls[n].transactions[i + 1].amount = calls[n].transactions[1].amount

\* the day of the latest transaction handed to call n
LastDay(n) ==
    CHOOSE d \in {DayOf(calls[n].transactions[i]) : i \in 1..Len(calls[n].transactions)} :
        \A i \in 1..Len(calls[n].transactions) : DayOf(calls[n].transactions[i]) <= d

\* a finite amount rounded to the nearest cent, half a cent upwards
RoundedToCents(a) ==
    IF a.x >= 0 - 2 THEN a
    ELSE Num((2 * a.m + Pow10(0 - 2 - a.x)) \div (2 * Pow10(0 - 2 - a.x)), 0 - 2)

RangeGaps == (5..10) \cup (25..38) \cup (80..105) \cup (340..400)

\* the one summary of a regular input: the frequency of the range of d, all
\* the transactions, and the next date d days after the last one
RegularSummary(n, d) ==
    /\ calls[n].result.ok
    /\ Len(Summaries(n)) = 1
    /\ Summaries(n)[1].description = CallKeys(n)[1]
    /\ Summaries(n)[1].frequency = RangeOfMean(d, 1)
    /\ Summaries(n)[1].occurrences = Len(calls[n].transactions)
    /\ NewDate(Summaries(n)[1].nextExpectedDate) = DateAt(LastDay(n) + d)

GapsOf(txns) ==
    <<>> \o [i \in 1..(Len(txns) - 1) |-> AbsDiff(DayOf(txns[i + 1]), DayOf(txns[i]))]

\* five transactions of one payee with gaps of 5, 95, 12 and 200 days,
\* listed from the earliest or from the latest on
IrregularInput(n) ==
    /\ OneGroupInDateOrder(n)
    /\ GapsOf(calls[n].transactions) \in {<<5, 95, 12, 200>>, <<200, 12, 95, 5>>}

RoundedMean(sum, n) == (2 * sum + n) \div (2 * n)

\* what a summary takes from the group of its description whatever the order
\* of dates is: the members, the category of the last transaction listed, and
\* the next date, later than the last one by the rounded mean gap
BuiltFromGroup(n, keys, summary) ==
    \E txns \in {summary.transactions} :
        /\ Len(txns) = Cardinality(MembersAt(keys, summary.description))
        /\ {txns[i] : i \in 1..Len(txns)} = GroupAt(n, keys, summary.description)
        /\ summary.lastDate = txns[Len(txns)].date
        /\ summary.category = (IF txns[Len(txns)].category = Undefined
                               THEN Uncategorized
                               ELSE txns[Len(txns)].category[1])
        /\ NewDate(summary.nextExpectedDate)
               = DateAt(NewDate(summary.lastDate).day
                            + RoundedMean(GapSum(txns, 1), Len(txns) - 1))
        /\ NewDate(summary.nextExpectedDate).day > NewDate(summary.lastDate).day

\* the transactions are listed from the earliest day to the latest
InDayOrder(txns) == \A i, j \in 1..Len(txns) : i < j => DayOf(txns[i]) <= DayOf(txns[j])

\* the transactions are listed in the order of their date texts
InTextOrder(txns) ==
    \A i, j \in 1..Len(txns) : i < j => localeCompare(txns[i].date, txns[j].date) <= 0

UndatedGroup(n, keys, key) ==
    \E t \in GroupAt(n, keys, key) : ~NewDate(t.date).valid

\* C20: every call of detectRecurring returns a sequence of summaries and
\* none raises, whatever the transactions are; a group with a member whose
\* date cannot be parsed has no summary.
C20_NeverRaises ==
    \A n \in 1..Len(calls) : \A keys \in {CallKeys(n)} :
        /\ calls[n].result.ok
        /\ \A k \in 1..Len(keys) : UndatedGroup(n, keys, keys[k]) => ~Reported(n, keys[k])

\* weekly payments the last of which is on the last day a Date can hold: the
\* call raises the RangeError of toISOString
C20_Witness ==
    /\ Len(calls) >= 1
    /\ Len(calls[1].transactions) = 3
    /\ calls[1].transactions[1].date = Chars("+275760-09-13")
    /\ ~calls[1].result.ok
    /\ calls[1].result.error = Chars("RangeError: Invalid time value")

\* the inputs named by C20 do return: no transaction, one transaction, a
\* date that is no date, a description that normalizes to the empty text
C20_SparseInputsReturn ==
    \A n \in 1..Len(calls) : \A keys \in {CallKeys(n)} :
        \/ Len(keys) <= 1
        \/ \E k \in 1..Len(keys) : UndatedGroup(n, keys, keys[k]) \/ keys[k] = <<>>
        => /\ calls[n].result.ok
           /\ \A k \in 1..Len(keys) : UndatedGroup(n, keys, keys[k]) => ~Reported(n, keys[k])

\* two payments of a payee whose description normalizes to the empty text
\* next to a payment with a date that is no date
C20_WitnessSparse ==
    /\ Len(calls) >= 1
    /\ Len(calls[1].transactions) = 3
    /\ \E k \in 1..3 : UndatedGroup(1, CallKeys(1), CallKeys(1)[k])
    /\ Cardinality(MembersAt(CallKeys(1), <<>>)) = 2
    /\ calls[1].result.ok
    /\ Len(Summaries(1)) = 0

PairGap(n, pair) ==
    AbsDiff(DayOf(calls[n].transactions[IndexAt(pair, 1)]),
            DayOf(calls[n].transactions[IndexAt(pair, 2)]))

\* the positions of the two transactions that make up a group of call n, with
\* dates a number of days apart that lies in a frequency range
TwoMemberGroup(n, keys, pair) ==
    /\ Cardinality(pair) = 2
    /\ \A i \in pair : pair = MembersAt(keys, keys[i])
    /\ \A i \in pair : NewDate(calls[n].transactions[i].date).valid
    /\ PairGap(n, pair) \in RangeGaps

ReportedTwice(n, key) ==
    \E i \in 1..Len(Summaries(n)) :
        /\ Summaries(n)[i].description = key
        /\ Summaries(n)[i].occurrences = 2

GroupsReported(n) ==
    {[description |-> Summaries(n)[i].description,
      frequency |-> Summaries(n)[i].frequency,
      occurrences |-> Summaries(n)[i].occurrences,
      lastDate |-> Summaries(n)[i].lastDate,
      nextExpectedDate |-> Summaries(n)[i].nextExpectedDate] : i \in 1..Len(Summaries(n))}

\* b holds the elements of a, each as often as a does
IsPermutation(a, b) ==
    /\ Len(a) = Len(b)
    /\ \A i \in 1..Len(a) :
           Cardinality({j \in 1..Len(a) : a[j] = a[i]})
               = Cardinality({j \in 1..Len(b) : b[j] = a[i]})

\* C26: two calls on the same transactions in different orders report the
\* same groups, each with the same description, frequency, occurrences,
\* lastDate and nextExpectedDate, or raise both.
C26_OrderIndependence ==
    Len(calls) = 2 /\ IsPermutation(calls[1].transactions, calls[2].transactions) =>
        /\ calls[1].result.ok = calls[2].result.ok
        /\ Len(Summaries(1)) = Len(Summaries(2))
        /\ GroupsReported(1) = GroupsReported(2)

\* two payees with as many payments, the first one moved to the end of the
\* input: the same two groups, listed the other way round
C26_Witness ==
    /\ Len(calls) = 2
    /\ IsPermutation(calls[1].transactions, calls[2].transactions)
    /\ calls[2].transactions # <<>> \o Reverse(calls[1].transactions)
    /\ Len(Summaries(1)) = 2
    /\ Summaries(1)[1].description = Summaries(2)[2].description
    /\ Summaries(1)[2].description = Summaries(2)[1].description
    /\ GroupsReported(1) = GroupsReported(2)

----------------------------------------------------------------------------
(* Properties of the upload handler (Spec) *)

Count(seq, x) == Cardinality({n \in 1..Len(seq) : seq[n] = x})

Range(seq) == {seq[n] : n \in 1..Len(seq)}

\* the uploads answered with counts
Imports == {a \in 1..Len(responses) : responses[a].status = 200}

\* C1: an upload of a file none of whose transactions an earlier upload
\* stored reports imported = N and skipped = 0, N being the number of
\* transactions the file parses to, and every later upload of the same file
\* reports imported = 0 and skipped = N.
C1_IdempotentReimport ==
    \A a \in Imports :
        LET first == responses[a] IN
        (\A b \in 1..(a - 1) :
             Range(responses[b].importedIds) \cap Range(first.ids) = {}) =>
            /\ first.imported = first.total
            /\ first.skipped = 0
            /\ \A b \in (a + 1)..Len(responses) :
                   reqs[responses[b].req].file = reqs[first.req].file =>
                       /\ responses[b].imported = 0
                       /\ responses[b].skipped = first.total

\* the file with two rows of one identity, uploaded into an empty table
C1_Witness ==
    /\ Len(responses) = 2
    /\ Imports = {1, 2}
    /\ reqs[1].file = Some(UploadFiles[2])
    /\ reqs[2].file = Some(UploadFiles[2])
    /\ responses[1].total = 2
    /\ responses[1].imported = 1
    /\ responses[1].skipped = 1
    /\ responses[2].imported = 0
    /\ responses[2].skipped = 2

\* C2: under every interleaving of uploads the table never holds two rows
\* with the same id, and an id is counted as imported once, by one upload,
\* and as skipped by every other upload whose file contains it.
C2_UniqueIds ==
    /\ \A m, n \in 1..Len(db) : m # n => db[m].id # db[n].id
    /\ Range([n \in 1..Len(db) |-> db[n].id])
           = UNION {Range(responses[a].importedIds) : a \in Imports}
    /\ \A a \in Imports : \A id \in Range(responses[a].ids) :
           /\ \E b \in Imports :
                  /\ Count(responses[b].importedIds, id) = 1
                  /\ \A c \in Imports \ {b} :
                         /\ Count(responses[c].importedIds, id) = 0
                         /\ Count(responses[c].skippedIds, id)
                                = Count(responses[c].ids, id)
           /\ Count(responses[a].importedIds, id) + Count(responses[a].skippedIds, id)
                  = Count(responses[a].ids, id)
    /\ \A a \in Imports :
           /\ responses[a].imported = Len(responses[a].importedIds)
           /\ responses[a].skipped = Len(responses[a].skippedIds)

\* two overlapping uploads answered in the other order than they arrived
C2_Witness ==
    /\ Len(responses) = 2
    /\ Imports = {1, 2}
    /\ responses[1].req = 2
    /\ responses[2].req = 1
    /\ responses[1].imported > 0
    /\ responses[2].imported = 0
    /\ responses[2].skipped = responses[2].total
    /\ Len(db) = responses[1].imported

\* a data row that fails conversion: too few columns, a bad amount or a bad
\* date
RowFails(row, format) ==
    \/ Len(row) < 6
    \/ isNaN(parseFloat(row[AmountColumn(format)]))
    \/ ~parseDate(row[DateColumn(format)]).ok

HasFailingRow(raw) ==
    LET rows == parseCsvLines(raw)
    IN  /\ Len(rows) >= 2
        /\ detectFormat(rows[1]) # "unrecognized"
        /\ \E k \in 1..Len(DataRows(rows)) :
               RowFails(DataRows(rows)[k], detectFormat(rows[1]))

\* C4: when a data row of the uploaded file fails conversion, parseCsv
\* returns no transactions, the upload is answered with the row's error and
\* the table is left as it was before the upload.
C4_AllOrNothing ==
    [][\A i \in pending :
          (/\ i \notin pending'
           /\ reqs[i].file # Undefined
           /\ HasFailingRow(reqs[i].file[1])) =>
              /\ db' = db
              /\ parseCsv(reqs[i].file[1], Chars("default")).transactions = <<>>
              /\ responses'[Len(responses')].req = i
              /\ responses'[Len(responses')].status = 400
              /\ responses'[Len(responses')].error.msg = "Parse error at row"
              /\ responses'[Len(responses')].total = 0]_vars

\* a file whose second data row fails, uploaded after rows were stored
C4_Witness ==
    /\ Len(responses) = 2
    /\ responses[1].status = 200
    /\ responses[2].status = 400
    /\ responses[2].error.msg = "Parse error at row"
    /\ responses[2].error.row = 3
    /\ HasFailingRow(reqs[responses[2].req].file[1])
    /\ ~RowFails(DataRows(parseCsvLines(reqs[responses[2].req].file[1]))[1],
                 "chase_checking")
    /\ Len(db) = responses[1].imported
    /\ Len(db) > 0

\* the response of the handler that ran last
LastResponse == responses'[Len(responses')]

\* C22: a step never changes or removes a row of the table; a transaction of
\* a successful upload whose id is the id of a stored row is counted as
\* skipped, and the stored row keeps its account, balance and category.
C22_FirstWriterWins ==
    [][/\ Len(db') >= Len(db)
       /\ \A n \in 1..Len(db) : db'[n] = db[n]
       /\ Len(responses') > Len(responses) /\ LastResponse.status = 200 =>
              \A k \in 1..Len(LastResponse.ids) :
                  (\E n \in 1..Len(db) : db[n].id = LastResponse.ids[k]) =>
                      /\ \E q \in 1..Len(LastResponse.skippedIds) :
                             LastResponse.skippedIds[q] = LastResponse.ids[k]
                      /\ \A q \in 1..Len(LastResponse.importedIds) :
                             LastResponse.importedIds[q] # LastResponse.ids[k]]_vars

\* the same file uploaded for the account joint and then with no account:
\* the second upload is skipped whole and the rows keep the account joint
C22_Witness ==
    /\ Len(responses) = 2
    /\ reqs[responses[1].req].account = Chars("joint")
    /\ reqs[responses[2].req].account = <<>>
    /\ reqs[responses[1].req].file = reqs[responses[2].req].file
    /\ responses[1].imported = 2
    /\ responses[2].status = 200
    /\ responses[2].imported = 0
    /\ responses[2].skipped = 2
    /\ Len(db) = 2
    /\ \A n \in 1..Len(db) : db[n].account = Chars("joint")

\* C23: the counts of every successful upload add up, imported + skipped =
\* total, the number of transactions parsed, and the table grows by exactly
\* the number imported.
C23_CountsAddUp ==
    [][Len(responses') > Len(responses) /\ LastResponse.status = 200 =>
           /\ LastResponse.imported + LastResponse.skipped = LastResponse.total
           /\ LastResponse.total = Len(LastResponse.ids)
           /\ Len(db') = Len(db) + LastResponse.imported]_vars

\* an upload of two rows with one id into an empty table: one imported, one
\* skipped
C23_Witness ==
    /\ Len(responses) = 1
    /\ responses[1].status = 200
    /\ responses[1].total = 2
    /\ responses[1].imported = 1
    /\ responses[1].skipped = 1
    /\ Len(db) = 1

====
